---- MODULE Spec2Model ----
(***************************************************************************)
(* Reactive core of dot-js (signal / effect / computed).                   *)
(*                                                                         *)
(* The runtime is single-threaded and synchronous: write() calls every     *)
(* subscriber inline, and a subscriber's body may itself read, write,      *)
(* throw or dispose.  The JavaScript call stack is therefore part of the   *)
(* state: `frames` holds one record per active call (an effect body or the *)
(* forEach loop of a write), and every action executes one statement of    *)
(* the topmost frame.  Effect bodies are small programs over the cells.    *)
(***************************************************************************)
EXTENDS Integers, Sequences, FiniteSets, TLC

\* ------------------------------------------------------------------ bounds
NumCells   == 2    \* plain signals created by the application
NumValues  == 2    \* values a signal holds: 0 .. NumValues-1
NumHandles == 3    \* effect handles (a computed cell has one inside)
MaxEffects == 2    \* effects the application creates with effect()
MaxDepth   == 7    \* deepest JavaScript call stack explored
MaxLen     == 3    \* longest array given to a keyed list
NumKeys    == 3    \* keys keyFn yields: 1 .. NumKeys
NumData    == 2    \* what an item holds besides its key: 0 .. NumData-1
MaxWrites  == 2    \* writes to the source signal of a keyed list
MaxCount   == 2    \* longest array given to a virtual list
NumItems   == 2    \* item objects a virtual list is given: 1 .. NumItems
MaxItemHeight == 2 \* largest itemHeight of a virtual list
MaxViewport == 2   \* largest containerHeight of a virtual list
MaxBuffer  == 1    \* largest buffer of a virtual list
MaxRaf     == 2    \* requestAnimationFrame calls of a virtual list
MaxSets    == 1    \* changes of the items of a virtual list
MaxRequests == 3   \* calls of asyncFn one useAsync makes
NumResults == 2    \* what asyncFn resolves or rejects with: 1 .. NumResults

Cells   == 1..NumCells                  \* signals made with signal(v)
Values  == 0..(NumValues - 1)
Handles == 1..NumHandles

\* computed() makes its own signal: the one of handle h is cell Own(h)
Own(h) == NumCells + h

AllCells == 1..(NumCells + NumHandles)

\* the handle whose computed() made cell c
Owner(c) == c - NumCells

\* `undefined`, the initial value of a computed's signal
Undef == -1

\* `null`: no next sibling, no Map entry, no data, no error
Null == 0

\* --------------------------------------------------------------- variables
VARIABLES
  value,        \* signal: `let value`, per cell
  subscribers,  \* signal: `const subscribers = new Set()`, insertion ordered
  dependencies, \* execute.dependencies: the subscriber Sets the effect is in
  running,      \* execute.running
  effectStack,  \* module-level effectStack
  body,         \* fn of each created effect (<<>>: not created yet)
  status,       \* per handle: "none", "creating", "live" (effect() returned),
                \*   "failed" (effect() threw: no dispose function exists)
  frames,       \* JavaScript call stack, innermost call last
  thrown,       \* the handle whose body threw the exception now propagating
                \*   (0: no exception)
  ret,          \* outcome of the last top-level call: 0 when it returned,
                \*   else the handle whose error it threw
  lastReads,    \* history: cells read() by the body in its most recent run
  everRead,     \* history: cells read() by the body in any run
  disposed,     \* history: dispose() was called for the handle
  runs,         \* history: runs of each body begun during the top-level
                \*   call in progress; 2 stands for two or more
  changedCells, \* history: cells whose value changed during that call
  readOrder,    \* history, per cell: the handles whose run in progress or
                \*   most recent run read the cell, by time of first read
  items,        \* list: the array the source signal holds
  keyToNode,    \* list: `let keyToNode = new Map()`, key -> { node, item }
  children,     \* list: child nodes of startMarker.parentNode, in order
  where,        \* list: where the markers are: "none" (list() not called),
                \*   "mounted" (in the container, or in an element in it),
                \*   "gone" (unmounted: no parent), "detached" (unmounted
                \*   inside their element, which is still their parent)
  isFirstRun,   \* list: `let isFirstRun = true`
  raised,       \* list: the last list() or source write threw
  writes,       \* list: number of writes to the source signal so far
  lastPass,     \* history: what the last source write made the list do
  vlist,        \* virtual list: the variables createVirtualList closes over
  host,         \* virtual list: the container element as the browser keeps
                \*   it (scrollTop, listener, scroll event and frame queue)
  lastOp,       \* history: the last call into the virtual list, what it did
  winHist,      \* history: destroy() was called; the array was changed in
                \*   place since the last write; changes of the items so far;
                \*   a scroll event was dropped since the frame callback
                \*   now pending was requested
  hook,         \* useAsync: "none" (not called yet) or "made"
  data,         \* useAsync: value of the data signal
  loading,      \* useAsync: value of the loading signal
  error,        \* useAsync: value of the error signal
  abortController, \* useAsync: `let abortController`, the request it was
                \*   made for (0: null)
  isCancelled,  \* useAsync: `let isCancelled`
  requests,     \* useAsync: per call of asyncFn, whether its promise is
                \*   pending and `currentController.signal.aborted`
  lastSettle,   \* history: the promise settled last and what it settled with
  createdBy     \* history, per handle: the handle whose body called effect()
                \*   for it (0: the application did)

prog == <<value, subscribers, dependencies, running, effectStack, body, status,
          frames, thrown, ret, lastReads, everRead, disposed>>

hist == <<runs, changedCells, readOrder, createdBy>>

listVars ==
  <<items, keyToNode, children, where, isFirstRun, raised, writes, lastPass>>

winVars == <<vlist, host, lastOp, winHist>>

asyncVars ==
  <<hook, data, loading, error, abortController, isCancelled, requests, lastSettle>>

vars == <<prog, hist, listVars, winVars, asyncVars>>

\* ----------------------------------------------------------------- helpers
Range(s) == {s[i] : i \in 1..Len(s)}

Top(s) == s[Len(s)]

Pop(s) == SubSeq(s, 1, Len(s) - 1)

\* Set.prototype.add on an insertion-ordered Set: an element already present
\* keeps its place.
SetAdd(s, x) == IF x \in Range(s) THEN s ELSE Append(s, x)

\* Set.prototype.delete
SetDelete(s, x) == SelectSeq(s, LAMBDA y : y # x)

\* ------------------------------------------------------- effect bodies (fn)
\* One statement of a body.  c: the cell (or handle, or skip distance) the
\* statement names; k, v: the argument of a write.
Stmt(op, c, k, v) == [op |-> op, c |-> c, k |-> k, v |-> v]

RdS(c)       == Stmt("read", c, "-", 0)        \* x = c()
AddS(c)      == Stmt("add", c, "-", 0)         \* x = x + c()
IfS(n)       == Stmt("skipnz", n, "-", 0)      \* if (x !== 0) skip n statements
WrS(c, k, v) == Stmt("write", c, k, v)         \* setC(...)
ThS          == Stmt("throw", 0, "-", 0)       \* throw new Error()
DiS(h)       == Stmt("dispose", h, "-", 0)     \* dispose_h()
EfS(c)       == Stmt("effect", c, "-", 0)      \* effect(() => { c() })

\* The bodies the application may pass to effect().
Observer == { <<RdS(a)>> : a \in Cells }

\* reads b only while a is 0
Conditional == { <<RdS(a), IfS(1), RdS(b)>> : a \in Cells, b \in Cells } \ Observer

\* increments the cell it reads
SelfWriter == { <<RdS(a), WrS(a, "inc", 0)>> : a \in Cells }

\* writes back the value of the cell it reads
KeepWriter == { <<RdS(a), WrS(a, "keep", 0)>> : a \in Cells }

\* copies cell a to cell b
Deriver ==
  { <<RdS(ab[1]), WrS(ab[2], "x", 0)>> : ab \in {cc \in Cells \X Cells : cc[1] # cc[2]} }

\* throws while a is 0, else goes on to read b
Thrower == { <<RdS(a), IfS(1), ThS, RdS(b)>> : a \in Cells, b \in Cells }

\* disposes effect h
Disposer == { <<RdS(a), DiS(h)>> : a \in Cells, h \in 1..MaxEffects }

\* derives cell b from cell a: b = a, or b = a + 1
Ring ==
  { <<RdS(ab[1]), WrS(ab[2], k, 0)>> :
      ab \in {cc \in Cells \X Cells : cc[1] # cc[2]}, k \in {"x", "x1"} }

\* creates an effect that reads b, then reads c itself
Nester == { <<EfS(b), RdS(c)>> : b \in Cells, c \in Cells }

\* The functions the application may pass to computed() for handle h, each
\* wrapped as computed() wraps it: `() => { setValue(fn()) }`.  fn reads cells
\* that exist when computed() is called, so the graph is acyclic.
Sources(h) == Cells \cup {Own(g) : g \in 1..(h - 1)}

\* a() + 1, or a constant whatever a() is
Unary(h) ==
  { <<RdS(a), WrS(Own(h), k, 0)>> : a \in Sources(h), k \in {"x1", "const"} }

\* a() + b()
Sum(h) ==
  { <<RdS(ab[1]), AddS(ab[2]), WrS(Own(h), "x", 0)>> :
      ab \in {cc \in Sources(h) \X Sources(h) : cc[1] < cc[2]} }

\* a() || b()
Either(h) ==
  { <<RdS(ab[1]), IfS(1), RdS(ab[2]), WrS(Own(h), "x", 0)>> :
      ab \in {cc \in Sources(h) \X Sources(h) : cc[1] < cc[2]} }

ComputedPrograms(h) == Unary(h) \cup Sum(h) \cup Either(h)

Programs ==
  Observer \cup Conditional \cup SelfWriter \cup KeepWriter \cup Deriver
    \cup Thrower \cup Disposer \cup Nester

\* ------------------------------------------------------------------ frames
\* kind "body":   fn of handle h is executing, pc is its next statement, x the
\*                last value read; create: the call came from effect() itself.
\* kind "notify": the forEach of write(cell) over the copied subscriber array
\*                subs, i the next index.  History: readers, the handles
\*                not executing when the write happened whose latest run had
\*                read the cell; due, those of them not disposed; ran, the
\*                handles the loop has invoked.
Frame(kind, h, pc, x, create, cell, subs, i, readers, due, ran) ==
  [kind |-> kind, h |-> h, pc |-> pc, x |-> x, create |-> create,
   cell |-> cell, subs |-> subs, i |-> i, readers |-> readers, due |-> due,
   ran |-> ran]

BodyFrame(h, create) == Frame("body", h, 1, 0, create, 0, <<>>, 0, {}, {}, <<>>)

NotifyFrame(c, subs, readers, due) ==
  Frame("notify", 0, 0, 0, FALSE, c, subs, 1, readers, due, <<>>)

Idle == frames = <<>> /\ thrown = 0

InBody == frames # <<>> /\ thrown = 0 /\ Top(frames).kind = "body"

InNotify == frames # <<>> /\ thrown = 0 /\ Top(frames).kind = "notify"

CurStmt == body[Top(frames).h][Top(frames).pc]

AtStmt(op) ==
  /\ InBody
  /\ Top(frames).pc <= Len(body[Top(frames).h])
  /\ CurStmt.op = op

\* The caller's frame with its program counter moved past the current statement.
Advance(n) == [frames EXCEPT ![Len(frames)].pc = @ + n]

\* History of the top-level call in progress, kept by every step and dropped
\* when the call returns or throws.
Observe ==
  /\ runs' =
       IF frames' = <<>>
         THEN [h \in Handles |-> 0]
         ELSE [h \in Handles |->
                 IF /\ Len(frames') > Len(frames)
                    /\ Top(frames').kind = "body"
                    /\ Top(frames').h = h
                   THEN IF runs[h] = 0 THEN 1 ELSE 2
                   ELSE runs[h]]
  /\ changedCells' =
       IF frames' = <<>>
         THEN {}
         ELSE changedCells \cup {c \in AllCells : value'[c] # value[c]}
  /\ readOrder' =
       [c \in AllCells |->
          IF Len(frames') > Len(frames) /\ Top(frames').kind = "body"
            THEN \* a run of Top(frames').h begins: its earlier reads lapse
                 SelectSeq(readOrder[c], LAMBDA g : g # Top(frames').h)
            ELSE IF /\ AtStmt("read") \/ AtStmt("add")
                    /\ CurStmt.c = c
                    /\ \A i \in 1..Len(readOrder[c]) : readOrder[c][i] # Top(frames).h
                   THEN Append(readOrder[c], Top(frames).h)
                   ELSE readOrder[c]]
  /\ createdBy' =
       [h \in Handles |->
          IF status[h] = "none" /\ status'[h] # "none" /\ effectStack # <<>>
            THEN Top(effectStack)
            ELSE createdBy[h]]

\* ------------------------------------------------------------ signal.read
RunningOutermost == IF effectStack = <<>> THEN 0 ELSE effectStack[1]

\* `const running = effectStack[effectStack.length - 1]`
Running == IF effectStack = <<>> THEN 0 ELSE Top(effectStack)

readSubscribersForgotten(c) == subscribers

readSubscribersPrepended(c) ==
  IF Running # 0 /\ Running \notin Range(subscribers[c])
    THEN [subscribers EXCEPT ![c] = <<Running>> \o @]
    ELSE subscribers

\* `subscribers.add(running)` when an effect is executing
readSubscribers(c) ==
  IF Running # 0
    THEN [subscribers EXCEPT ![c] = SetAdd(@, Running)]
    ELSE subscribers

readDependenciesForgotten(c) == dependencies

\* `running.dependencies.add(subscribers)` when an effect is executing
readDependencies(c) ==
  IF Running # 0
    THEN [dependencies EXCEPT ![Running] = @ \cup {c}]
    ELSE dependencies

\* ----------------------------------------------------------- signal.write
\* `typeof newValue === "function" ? newValue(value) : newValue`.  The
\* updaters are n => n + 1 (within the value domain) and n => n; "x" and
\* "x1" are values the caller computed from what it read (x and x + 1).
nextValue(k, v, cur, x) ==
  CASE k = "inc"  -> (cur + 1) % NumValues
    [] k = "keep" -> cur
    [] k = "x"    -> x
    [] k = "x1"   -> (x + 1) % NumValues
    [] OTHER      -> v

changedAlways(next, cur) == TRUE

\* `if (nextValue !== value)`
changed(next, cur) == next # cur

mayNotifyInverted(fn) == running[fn]

\* `if (!fn.running)` in the forEach of write
mayNotify(fn) == ~running[fn]

snapshotFirst(c) == IF subscribers[c] = <<>> THEN <<>> ELSE <<subscribers[c][1]>>

\* `Array.from(subscribers)`
snapshot(c) == subscribers[c]

\* History: the handles not executing whose most recent run read c, and those
\* of them that were not disposed.
Readers(c) == {h \in Handles : c \in lastReads[h] /\ ~running[h]}

Due(c) == {h \in Readers(c) : ~disposed[h]}

\* write(newValue) called with the call stack fr below it
write(c, k, v, x, fr) ==
  LET next == nextValue(k, v, value[c], x) IN
    IF changed(next, value[c])
      THEN /\ value' = [value EXCEPT ![c] = next]
           /\ frames' = Append(fr, NotifyFrame(c, snapshot(c), Readers(c), Due(c)))
      ELSE /\ value' = value
           /\ frames' = fr

\* ------------------------------------------------------------------ cleanup
cleanupSubscribersForgotten(h) == subscribers

cleanupSubscribersOwned(h) ==
  [c \in AllCells |->
     SelectSeq(IF c \in dependencies[h] THEN SetDelete(subscribers[c], h) ELSE subscribers[c],
               LAMBDA g : createdBy[g] # h)]

\* `for (const deps of effect.dependencies) deps.delete(effect)`
cleanupSubscribers(h) ==
  [c \in AllCells |->
     IF c \in dependencies[h] THEN SetDelete(subscribers[c], h) ELSE subscribers[c]]

cleanupDependenciesForgotten(h) == dependencies

\* `effect.dependencies.clear()`
cleanupDependencies(h) == [dependencies EXCEPT ![h] = {}]

\* ------------------------------------------------------------------- effect
setRunningForgotten(h) == running

\* `execute.running = true`
setRunning(h) == [running EXCEPT ![h] = TRUE]

finallyStackForgotten == effectStack

\* finally: `effectStack.pop()`
finallyStack == Pop(effectStack)

\* finally: `execute.running = false`
finallyRunning(h) == [running EXCEPT ![h] = FALSE]

\* execute() of handle h, called with the call stack fr below it
execute(h, create, fr) ==
  IF running[h]
    THEN \* "Effect tried to run recursively, skipping"
         /\ frames' = fr
         /\ UNCHANGED <<subscribers, dependencies, running, effectStack, lastReads>>
    ELSE /\ subscribers' = cleanupSubscribers(h)
         /\ dependencies' = cleanupDependencies(h)
         /\ running' = setRunning(h)
         /\ effectStack' = Append(effectStack, h)
         /\ frames' = Append(fr, BodyFrame(h, create))
         /\ lastReads' = [lastReads EXCEPT ![h] = {}]

\* The handle effect() is about to create: handles are numbered in creation
\* order.
NewHandle == CHOOSE h \in Handles : status[h] = "none" /\ \A g \in 1..(h - 1) : status[g] # "none"

\* effect(fn) called by the application
Effect(p) ==
  /\ Idle
  /\ \E h \in 1..MaxEffects : status[h] = "none"
  /\ body' = [body EXCEPT ![NewHandle] = p]
  /\ status' = [status EXCEPT ![NewHandle] = "creating"]
  /\ execute(NewHandle, TRUE, frames)
  /\ UNCHANGED <<value, thrown, ret, everRead, disposed>>
  /\ Observe
  /\ UNCHANGED <<listVars, winVars, asyncVars>>

\* computed(fn) called by the application: `signal(undefined)`, then the
\* effect that keeps it current
Computed(p) ==
  /\ Idle
  /\ \E h \in Handles : status[h] = "none"
  /\ p \in ComputedPrograms(NewHandle)
  /\ value' = [value EXCEPT ![Own(NewHandle)] = Undef]
  /\ body' = [body EXCEPT ![NewHandle] = p]
  /\ status' = [status EXCEPT ![NewHandle] = "creating"]
  /\ execute(NewHandle, TRUE, frames)
  /\ UNCHANGED <<thrown, ret, everRead, disposed>>
  /\ Observe
  /\ UNCHANGED <<listVars, winVars, asyncVars>>

\* --------------------------------------------------- statements of a body
\* x = c()  or  x = x + c()
BodyRead ==
  /\ AtStmt("read") \/ AtStmt("add")
  /\ LET c == CurStmt.c
         h == Top(frames).h IN
       /\ subscribers' = readSubscribers(c)
       /\ dependencies' = readDependencies(c)
       /\ frames' = [frames EXCEPT
                      ![Len(frames)].pc = @ + 1,
                      ![Len(frames)].x = IF CurStmt.op = "add"
                                           THEN (@ + value[c]) % NumValues
                                           ELSE value[c]]
       /\ lastReads' = [lastReads EXCEPT ![h] = @ \cup {c}]
       /\ everRead' = [everRead EXCEPT ![h] = @ \cup {c}]
  /\ UNCHANGED <<value, running, effectStack, body, status, thrown, ret, disposed>>
  /\ Observe
  /\ UNCHANGED <<listVars, winVars, asyncVars>>

\* if (x !== 0) skip the next n statements
BodyBranch ==
  /\ AtStmt("skipnz")
  /\ frames' = Advance(IF Top(frames).x # 0 THEN 1 + CurStmt.c ELSE 1)
  /\ UNCHANGED <<value, subscribers, dependencies, running, effectStack, body,
                 status, thrown, ret, lastReads, everRead, disposed>>
  /\ Observe
  /\ UNCHANGED <<listVars, winVars, asyncVars>>

\* setC(...) inside a body
BodyWrite ==
  /\ AtStmt("write")
  /\ Len(frames) < MaxDepth
  /\ write(CurStmt.c, CurStmt.k, CurStmt.v, Top(frames).x, Advance(1))
  /\ UNCHANGED <<subscribers, dependencies, running, effectStack, body, status,
                 thrown, ret, lastReads, everRead, disposed>>
  /\ Observe
  /\ UNCHANGED <<listVars, winVars, asyncVars>>

\* throw inside a body
BodyThrow ==
  /\ AtStmt("throw")
  /\ thrown' = Top(frames).h
  /\ UNCHANGED <<value, subscribers, dependencies, running, effectStack, body,
                 status, frames, ret, lastReads, everRead, disposed>>
  /\ Observe
  /\ UNCHANGED <<listVars, winVars, asyncVars>>

\* The dispose function effect() returned for h: `() => cleanup(execute)`.
\* It exists once effect() has returned.
dispose(h) ==
  IF status[h] = "live"
    THEN /\ subscribers' = cleanupSubscribers(h)
         /\ dependencies' = cleanupDependencies(h)
         /\ disposed' = [disposed EXCEPT ![h] = TRUE]
    ELSE UNCHANGED <<subscribers, dependencies, disposed>>

\* dispose_h() inside a body
BodyDispose ==
  /\ AtStmt("dispose")
  /\ dispose(CurStmt.c)
  /\ frames' = Advance(1)
  /\ UNCHANGED <<value, running, effectStack, body, status, thrown, ret,
                 lastReads, everRead>>
  /\ Observe
  /\ UNCHANGED <<listVars, winVars, asyncVars>>

\* effect(() => { c() }) inside a body: the inner effect runs before the
\* outer body goes on
BodyEffect ==
  /\ AtStmt("effect")
  /\ \E h \in Handles : status[h] = "none"
  /\ Len(frames) < MaxDepth
  /\ body' = [body EXCEPT ![NewHandle] = <<RdS(CurStmt.c)>>]
  /\ status' = [status EXCEPT ![NewHandle] = "creating"]
  /\ execute(NewHandle, TRUE, Advance(1))
  /\ UNCHANGED <<value, thrown, ret, everRead, disposed>>
  /\ Observe
  /\ UNCHANGED <<listVars, winVars, asyncVars>>

\* fn returned: the finally block of execute, then back to the caller
BodyReturn ==
  /\ InBody
  /\ Top(frames).pc > Len(body[Top(frames).h])
  /\ LET f == Top(frames) IN
       /\ effectStack' = finallyStack
       /\ running' = finallyRunning(f.h)
       /\ frames' = Pop(frames)
       /\ status' = IF f.create THEN [status EXCEPT ![f.h] = "live"] ELSE status
       /\ ret' = IF Len(frames) = 1 THEN 0 ELSE ret
  /\ UNCHANGED <<value, subscribers, dependencies, body, thrown, lastReads,
                 everRead, disposed>>
  /\ Observe
  /\ UNCHANGED <<listVars, winVars, asyncVars>>

\* ------------------------------------------------ the forEach of a write
\* `Array.from(subscribers).forEach(fn => { if (!fn.running) fn() })`
NotifyStep ==
  /\ InNotify
  /\ Top(frames).i <= Len(Top(frames).subs)
  /\ Len(frames) < MaxDepth
  /\ LET f  == Top(frames)
         fn == f.subs[f.i] IN
       IF mayNotify(fn)
         THEN execute(fn, FALSE,
                      [frames EXCEPT ![Len(frames)].i = @ + 1,
                                     ![Len(frames)].ran = Append(@, fn)])
         ELSE /\ frames' = [frames EXCEPT ![Len(frames)].i = @ + 1]
              /\ UNCHANGED <<subscribers, dependencies, running, effectStack, lastReads>>
  /\ UNCHANGED <<value, body, status, thrown, ret, everRead, disposed>>
  /\ Observe
  /\ UNCHANGED <<listVars, winVars, asyncVars>>

\* the forEach is over: write() returns
NotifyReturn ==
  /\ InNotify
  /\ Top(frames).i > Len(Top(frames).subs)
  /\ frames' = Pop(frames)
  /\ ret' = IF Len(frames) = 1 THEN 0 ELSE ret
  /\ UNCHANGED <<value, subscribers, dependencies, running, effectStack, body,
                 status, thrown, lastReads, everRead, disposed>>
  /\ Observe
  /\ UNCHANGED <<listVars, winVars, asyncVars>>

\* ----------------------------------------------------- exception unwinding
catchesInForEach(f) == f.kind = "notify"

\* Which calls catch an exception: execute has try/finally without catch and
\* the forEach of write has no try at all, so none does.
catches(f) == FALSE

\* A body frame runs its finally block, a forEach frame is abandoned, and the
\* error leaves the top-level call.
Unwind ==
  /\ thrown # 0
  /\ frames # <<>>
  /\ LET f == Top(frames) IN
       IF catches(f)
         THEN /\ thrown' = 0
              /\ UNCHANGED <<effectStack, running, status, frames, ret>>
         ELSE /\ effectStack' = IF f.kind = "body" THEN finallyStack ELSE effectStack
              /\ running' = IF f.kind = "body" THEN finallyRunning(f.h) ELSE running
              /\ status' = IF f.kind = "body" /\ f.create
                             THEN [status EXCEPT ![f.h] = "failed"] ELSE status
              /\ frames' = Pop(frames)
              /\ thrown' = IF Len(frames) = 1 THEN 0 ELSE thrown
              /\ ret' = IF Len(frames) = 1 THEN thrown ELSE ret
  /\ UNCHANGED <<value, subscribers, dependencies, body, lastReads, everRead, disposed>>
  /\ Observe
  /\ UNCHANGED <<listVars, winVars, asyncVars>>

\* ------------------------------------------------------ application calls
\* setC(v) or setC(updater) from outside any effect
TopWrite(c, k, v) ==
  /\ Idle
  /\ write(c, k, v, 0, frames)
  /\ ret' = IF frames' = <<>> THEN 0 ELSE ret
  /\ UNCHANGED <<subscribers, dependencies, running, effectStack, body, status,
                 thrown, lastReads, everRead, disposed>>
  /\ Observe
  /\ UNCHANGED <<listVars, winVars, asyncVars>>

\* c() from outside any effect
TopRead(c) ==
  /\ Idle
  /\ subscribers' = readSubscribers(c)
  /\ dependencies' = readDependencies(c)
  /\ ret' = 0
  /\ UNCHANGED <<value, running, effectStack, body, status, frames, thrown,
                 lastReads, everRead, disposed>>
  /\ Observe
  /\ UNCHANGED <<listVars, winVars, asyncVars>>

\* dispose_h() from outside any effect
TopDispose(h) ==
  /\ Idle
  /\ status[h] = "live"
  /\ dispose(h)
  /\ ret' = 0
  /\ UNCHANGED <<value, running, effectStack, body, status, frames, thrown,
                 lastReads, everRead>>
  /\ Observe
  /\ UNCHANGED <<listVars, winVars, asyncVars>>

\* ================================================================ useAsync
\* useAsync(asyncFn) of http.js.  A call of the application is one action, and
\* so is the part of execute() that runs once the promise of asyncFn has
\* settled.  Nothing subscribes to the three signals here, so a write to one
\* of them is an assignment.
Requests == 1..MaxRequests

Results == 1..NumResults

\* What a promise of asyncFn settles with: a value, an error, or the
\* AbortError that fetch rejects with when the signal it was given is aborted.
Outcome(kind, val) == [kind |-> kind, val |-> val]

Outcomes ==
  {Outcome(k, v) : k \in {"value", "error"}, v \in Results}
    \cup {Outcome("AbortError", 0)}

NoRequests == [r \in Requests |-> [state |-> "none", aborted |-> FALSE]]

NoSettle == [req |-> 0, outcome |-> Outcome("none", 0)]

\* `if (abortController) abortController.abort()`
abortHeld ==
  IF abortController # 0
    THEN [requests EXCEPT ![abortController].aborted = TRUE]
    ELSE requests

\* the call of asyncFn that execute() is about to make
NewRequest ==
  CHOOSE r \in Requests :
    requests[r].state = "none" /\ \A q \in 1..(r - 1) : requests[q].state # "none"

\* execute() up to its await: the promise of asyncFn is pending
executeAsync ==
  /\ \E r \in Requests : requests[r].state = "none"
  /\ requests' = [abortHeld EXCEPT ![NewRequest] = [state |-> "pending", aborted |-> FALSE]]
  /\ abortController' = NewRequest
  /\ loading' = TRUE
  /\ error' = Null

\* useAsync(asyncFn): the three signals, then `execute()`
useAsync ==
  /\ hook = "none"
  /\ hook' = "made"
  /\ data' = Null
  /\ executeAsync
  /\ UNCHANGED <<isCancelled, lastSettle>>
  /\ UNCHANGED <<prog, hist, listVars, winVars>>

\* refetch(), which is execute
refetch ==
  /\ hook = "made"
  /\ executeAsync
  /\ UNCHANGED <<hook, data, isCancelled, lastSettle>>
  /\ UNCHANGED <<prog, hist, listVars, winVars>>

\* abort()
abort ==
  /\ hook = "made"
  /\ isCancelled' = TRUE
  /\ requests' = abortHeld
  /\ UNCHANGED <<hook, data, loading, error, abortController, lastSettle>>
  /\ UNCHANGED <<prog, hist, listVars, winVars>>

\* `!currentController.signal.aborted && !isCancelled`
mayUpdate(r) == ~requests[r].aborted /\ ~isCancelled

\* The promise of call r settles with o and execute() goes on after its
\* await: try or catch, then finally.  asyncFn need not heed the signal, so
\* an aborted call may still settle with a value or an error.
Settle(r, o) ==
  /\ requests[r].state = "pending"
  /\ o.kind = "AbortError" => requests[r].aborted
  /\ requests' = [requests EXCEPT ![r].state = "settled"]
  /\ data' = IF o.kind = "value" /\ mayUpdate(r) THEN o.val ELSE data
  /\ error' = IF o.kind = "error" /\ mayUpdate(r) THEN o.val ELSE error
  /\ loading' = IF mayUpdate(r) THEN FALSE ELSE loading
  /\ lastSettle' = [req |-> r, outcome |-> o]
  /\ UNCHANGED <<hook, abortController, isCancelled>>
  /\ UNCHANGED <<prog, hist, listVars, winVars>>

\* ============================================================ virtual list
\* createVirtualList(options) of virtual-list.js.  One call of the
\* application or of the browser is one action; the cascade a write starts
\* runs inside it, through the subscriber Sets of the four signals involved.
\* `items` is a signal getter here (getItems is items itself).

\* item objects are 1 .. NumItems; a hole of the array reads `undefined`
Undefined == 0

ItemObjects == 1..NumItems

SourceArrays == UNION {[1..n -> {Undefined} \cup ItemObjects] : n \in 0..MaxCount}

\* the arrays the items signal is created with: their items are new objects
InitialArrays == {[i \in 1..n |-> 1] : n \in 0..MaxCount}

\* options the application may pass: sizes in pixels, of either sign
Cfg(h, v, b) == [itemHeight |-> h, containerHeight |-> v, buffer |-> b]

Configs ==
  {Cfg(h, v, b) : h \in 1..MaxItemHeight, v \in 1..MaxViewport, b \in 0..MaxBuffer}
    \cup {Cfg(h, 1, 0) : h \in {-1, 0}}
    \cup {Cfg(1, v, 0) : v \in {-1, 0}}

\* JavaScript numbers that are no integers
Infinity == 1000000000

NaN == 2000000000

IsNum(x) == x \notin {Infinity, -Infinity, NaN}

JsAdd(a, b) ==
  IF NaN \in {a, b} \/ {a, b} = {Infinity, -Infinity} THEN NaN
  ELSE IF Infinity \in {a, b} THEN Infinity
  ELSE IF -Infinity \in {a, b} THEN -Infinity
  ELSE a + b

JsSub(a, b) == JsAdd(a, IF b = NaN THEN NaN ELSE -b)

\* Math.max and Math.min: NaN when an argument is NaN
JsMax(a, b) == IF NaN \in {a, b} THEN NaN ELSE IF a > b THEN a ELSE b

JsMin(a, b) == IF NaN \in {a, b} THEN NaN ELSE IF a < b THEN a ELSE b

\* `<` and `>=`: false when an operand is NaN
JsLess(a, b) == NaN \notin {a, b} /\ a < b

JsGeq(a, b) == NaN \notin {a, b} /\ a >= b

\* a / b of two integers: the quotient is 0/0 = NaN or x/0 = +-Infinity
DivByZero(a) == IF a = 0 THEN NaN ELSE IF a > 0 THEN Infinity ELSE -Infinity

\* Math.floor(a / b)
JsFloorDiv(a, b) ==
  IF b = 0 THEN DivByZero(a)
  ELSE IF b > 0 THEN a \div b
  ELSE (-a) \div (-b)

\* Math.ceil(a / b)
JsCeilDiv(a, b) ==
  IF b = 0 THEN DivByZero(a)
  ELSE IF b > 0 THEN -((-a) \div b)
  ELSE -(a \div (-b))

\* `const firstVisible = Math.floor(currentScrollTop / itemHeight)`
firstVisibleCeil(offset, cfg) == JsCeilDiv(offset, cfg.itemHeight)

firstVisible(offset, cfg) == JsFloorDiv(offset, cfg.itemHeight)

\* `const visibleCount = Math.ceil(containerHeight / itemHeight)`
visibleCount(cfg) == JsCeilDiv(cfg.containerHeight, cfg.itemHeight)

\* what fn of the computed visibleRange returns
rangeFor(itemCount, offset, cfg) ==
  [startIndex |-> JsMax(0, JsSub(firstVisible(offset, cfg), cfg.buffer)),
   endIndex   |-> JsMin(itemCount,
                        JsAdd(JsAdd(firstVisible(offset, cfg), visibleCount(cfg)),
                              cfg.buffer))]

\* the signals the virtual list reads and the effects it creates
WinCells == {"items", "scrollTop", "totalHeight", "visibleRange"}

WinHandles == {"totalHeightFx", "visibleRangeFx", "spacerStyleFx", "renderFx"}

NoStat == [writes |-> 0, runs |-> 0, renders |-> 0, removes |-> 0, touched |-> 0]

NoNodes == [i \in {} |-> 0]

\* before createVirtualList: the application holds the items signal
NoWindow ==
  [created |-> FALSE, cfg |-> Cfg(0, 0, 0), items |-> <<>>, scrollTop |-> 0,
   rafId |-> 0, totalHeight |-> Undef, visibleRange |-> [startIndex |-> Undef, endIndex |-> Undef],
   spacerHeight |-> Undef, renderedNodes |-> NoNodes, content |-> <<>>,
   subs |-> [c \in WinCells |-> <<>>], running |-> {}, stat |-> NoStat]

NoHost == [scrollTop |-> 0, scrollEvent |-> FALSE, rafQueue |-> {}, nextRaf |-> 1,
           listener |-> FALSE]

NoOp == [op |-> "none", arg |-> 0, stat |-> NoStat]

NoHist == [destroyed |-> FALSE, dirty |-> FALSE, sets |-> 0, dropped |-> FALSE]

\* itemsArray[i], indices from 0
itemAt(arr, i) == IF i + 1 \in DOMAIN arr THEN arr[i + 1] ELSE Undefined

\* the wrapper element made for index i: what it shows and its translateY
Wrapper(w, i, item) == [index |-> i, item |-> item, y |-> i * w.cfg.itemHeight]

Count(w, field) == [w EXCEPT !.stat[field] = @ + 1]

\* signal.read() inside the effect h
winRead(w, c, h) ==
  [w EXCEPT !.subs[c] = IF \E j \in 1..Len(@) : @[j] = h THEN @ ELSE Append(@, h)]

\* cleanup(execute)
winCleanup(w, h) ==
  [w EXCEPT !.subs = [c \in WinCells |-> SelectSeq(w.subs[c], LAMBDA x : x # h)]]

\* the render effect, first loops: the cached indices outside the range
indicesToRemoveNone(w) == {}

indicesToRemove(w) ==
  {i \in DOMAIN w.renderedNodes :
     \/ JsLess(i, w.visibleRange.startIndex)
     \/ JsGeq(i, w.visibleRange.endIndex)}

removeStale(w) ==
  LET gone == indicesToRemove(w) IN
    [w EXCEPT !.content = SelectSeq(@, LAMBDA n : \A i \in gone : w.renderedNodes[i].node # n),
              !.renderedNodes = [i \in (DOMAIN @) \ gone |-> @[i]],
              !.stat.removes = @ + Cardinality(gone)]

\* the render effect, one turn of `for (let i = startIndex; i < endIndex; i++)`
renderIndex(w, i) ==
  LET item == itemAt(w.items, i)
      has == i \in DOMAIN w.renderedNodes IN
    IF item = Undefined THEN w
    ELSE IF has /\ w.renderedNodes[i].item = item
      THEN Count([w EXCEPT !.content =
                    [j \in DOMAIN @ |->
                       IF @[j] = w.renderedNodes[i].node
                         THEN [@[j] EXCEPT !.y = i * w.cfg.itemHeight] ELSE @[j]],
                  !.renderedNodes[i].node.y = i * w.cfg.itemHeight], "touched")
      ELSE LET wrapper == Wrapper(w, i, item)
               kept == IF has
                         THEN SelectSeq(w.content, LAMBDA n : n # w.renderedNodes[i].node)
                         ELSE w.content
               w1 == IF has /\ Len(kept) < Len(w.content) THEN Count(w, "removes") ELSE w
           IN Count([w1 EXCEPT !.content = Append(kept, wrapper),
                       !.renderedNodes =
                         [j \in (DOMAIN @) \cup {i} |->
                            IF j = i THEN [node |-> wrapper, item |-> item] ELSE @[j]]],
                    "renders")

RECURSIVE renderLoop(_, _)
renderLoop(w, i) ==
  IF JsLess(i, w.visibleRange.endIndex) THEN renderLoop(renderIndex(w, i), i + 1) ELSE w

\* fn of the render effect, after its two reads
renderPass(w) ==
  LET w1 == removeStale(w) IN
    IF IsNum(w1.visibleRange.startIndex)
      THEN renderLoop(w1, w1.visibleRange.startIndex)
      ELSE w1

RECURSIVE winExecute(_, _)
RECURSIVE winNotify(_, _, _)

\* write(): `if (nextValue !== value)`, then the forEach over the copy
winWrite(w, c, next, differs) ==
  IF differs
    THEN winNotify([w EXCEPT ![c] = next], w.subs[c], 1)
    ELSE w

\* fn of each effect of the virtual list
winBody(w, h) ==
  CASE h = "totalHeightFx" ->
         LET w1 == winRead(w, "items", h)
             next == Len(w1.items) * w1.cfg.itemHeight
         IN winWrite(w1, "totalHeight", next, next # w1.totalHeight)
    [] h = "visibleRangeFx" ->
         LET w1 == winRead(winRead(w, "items", h), "scrollTop", h)
         IN winWrite(w1, "visibleRange",
                     rangeFor(Len(w1.items), w1.scrollTop, w1.cfg), TRUE)
    [] h = "spacerStyleFx" ->
         LET w1 == winRead(w, "totalHeight", h)
         IN [w1 EXCEPT !.spacerHeight = w1.totalHeight]
    [] h = "renderFx" ->
         Count(renderPass(winRead(winRead(w, "items", h), "visibleRange", h)), "runs")

\* execute() of effect h
winExecute(w, h) ==
  IF h \in w.running THEN w
  ELSE LET w1 == [winCleanup(w, h) EXCEPT !.running = @ \cup {h}]
           w2 == winBody(w1, h)
       IN [w2 EXCEPT !.running = @ \ {h}]

winNotify(w, hs, i) ==
  IF i > Len(hs) THEN w
  ELSE winNotify(IF hs[i] \in w.running THEN w ELSE winExecute(w, hs[i]), hs, i + 1)

\* setScrollTop(next)
setScrollTop(w, next) ==
  winWrite(Count(w, "writes"), "scrollTop", next, next # w.scrollTop)

\* how far the browser lets the container scroll
hostMax(w) ==
  IF w.cfg.containerHeight >= 0 /\ w.spacerHeight > w.cfg.containerHeight
    THEN w.spacerHeight - w.cfg.containerHeight
    ELSE 0

hostClamp(w, pos) == IF pos < 0 THEN 0 ELSE IF pos > hostMax(w) THEN hostMax(w) ELSE pos

Done(w, op, arg) ==
  /\ vlist' = [w EXCEPT !.stat = NoStat]
  /\ lastOp' = [op |-> op, arg |-> arg, stat |-> w.stat]

\* createVirtualList(options): the scrollTop signal, the two computeds, the
\* three elements (the style of the spacer is an effect), the listener, the
\* render effect
createVirtualList(cfg) ==
  /\ ~vlist.created
  /\ \E w \in {winExecute(winExecute(winExecute(winExecute(
                 [vlist EXCEPT !.created = TRUE, !.cfg = cfg],
                 "totalHeightFx"), "visibleRangeFx"), "spacerStyleFx"), "renderFx")} :
       Done(w, "create", 0)
  /\ host' = [host EXCEPT !.listener = TRUE]
  /\ UNCHANGED winHist
  /\ UNCHANGED <<prog, hist, listVars, asyncVars>>

\* the user scrolls the container
Scroll(pos) ==
  /\ vlist.created
  /\ pos # host.scrollTop
  /\ pos <= hostMax(vlist)
  /\ host' = [host EXCEPT !.scrollTop = pos, !.scrollEvent = TRUE]
  /\ lastOp' = NoOp
  /\ UNCHANGED <<vlist, winHist>>
  /\ UNCHANGED <<prog, hist, listVars, asyncVars>>

\* the browser lays the container out again after the spacer shrank
Reflow ==
  /\ vlist.created
  /\ host.scrollTop > hostMax(vlist)
  /\ host' = [host EXCEPT !.scrollTop = hostMax(vlist), !.scrollEvent = TRUE]
  /\ lastOp' = NoOp
  /\ UNCHANGED <<vlist, winHist>>
  /\ UNCHANGED <<prog, hist, listVars, asyncVars>>

\* handleScroll(event): `if (rafId) return`
throttledNever(w) == FALSE

throttled(w) == w.rafId # 0

\* the browser dispatches the scroll event
DispatchScroll ==
  /\ host.scrollEvent
  /\ IF host.listener /\ ~throttled(vlist)
       THEN /\ host.nextRaf <= MaxRaf
            /\ vlist' = [vlist EXCEPT !.rafId = host.nextRaf]
            /\ host' = [host EXCEPT !.scrollEvent = FALSE,
                                    !.rafQueue = @ \cup {host.nextRaf},
                                    !.nextRaf = @ + 1]
       ELSE /\ host' = [host EXCEPT !.scrollEvent = FALSE]
            /\ UNCHANGED vlist
  /\ lastOp' = [op |-> "dispatch",
                arg |-> IF host.listener /\ throttled(vlist) THEN 1 ELSE 0,
                stat |-> NoStat]
  /\ winHist' = IF ~host.listener THEN winHist
                ELSE IF throttled(vlist) THEN [winHist EXCEPT !.dropped = TRUE]
                ELSE [winHist EXCEPT !.dropped = FALSE]
  /\ UNCHANGED <<prog, hist, listVars, asyncVars>>

\* `event.target.scrollTop`, read when the frame callback runs
frameValueStale(w) == w.scrollTop

frameValue(w) == host.scrollTop

\* the browser runs a requested frame callback
AnimationFrame ==
  /\ \E id \in host.rafQueue :
       /\ host' = [host EXCEPT !.rafQueue = @ \ {id}]
       /\ \E w \in {setScrollTop([vlist EXCEPT !.rafId = 0], frameValue(vlist))} :
            Done(w, "frame", IF winHist.dropped THEN 1 ELSE 0)
  /\ winHist' = [winHist EXCEPT !.dropped = FALSE]
  /\ UNCHANGED <<prog, hist, listVars, asyncVars>>

\* _virtualList.scrollToIndex(index)
scrollToIndex(index) ==
  /\ vlist.created
  /\ \E pos \in {hostClamp(vlist, index * vlist.cfg.itemHeight)} :
       host' = [host EXCEPT !.scrollTop = pos,
                            !.scrollEvent = @ \/ pos # host.scrollTop]
  /\ lastOp' = [op |-> "scrollToIndex", arg |-> index, stat |-> NoStat]
  /\ UNCHANGED <<vlist, winHist>>
  /\ UNCHANGED <<prog, hist, listVars, asyncVars>>

\* _virtualList.getVisibleRange()
getVisibleRange == vlist.visibleRange

\* _virtualList.refresh()
refresh ==
  /\ vlist.created
  /\ \E w \in {setScrollTop(vlist, host.scrollTop)} : Done(w, "refresh", 0)
  /\ UNCHANGED <<host, winHist>>
  /\ UNCHANGED <<prog, hist, listVars, asyncVars>>

\* cancelAnimationFrame(rafId) in destroy()
cancelPendingForgotten(w) == host.rafQueue

cancelPending(w) == IF w.rafId # 0 THEN host.rafQueue \ {w.rafId} ELSE host.rafQueue

\* _virtualList.destroy()
destroy ==
  /\ vlist.created
  /\ host' = [host EXCEPT !.listener = FALSE, !.rafQueue = cancelPending(vlist)]
  /\ lastOp' = [op |-> "destroy", arg |-> 0, stat |-> NoStat]
  /\ winHist' = [winHist EXCEPT !.destroyed = TRUE, !.dropped = FALSE]
  /\ UNCHANGED vlist
  /\ UNCHANGED <<prog, hist, listVars, asyncVars>>

\* the application writes a new array to the items signal
SetItems(arr) ==
  /\ vlist.created
  /\ winHist.sets < MaxSets
  /\ \E w \in {winWrite(vlist, "items", arr, TRUE)} : Done(w, "setItems", 0)
  /\ winHist' = [winHist EXCEPT !.sets = @ + 1, !.dirty = FALSE]
  /\ UNCHANGED host
  /\ UNCHANGED <<prog, hist, listVars, asyncVars>>

\* the application changes the array the signal holds in place: an element
\* assigned (i < length), pushed (i = length), or the last one popped
Mutate(i, item) ==
  /\ vlist.created
  /\ winHist.sets < MaxSets
  /\ LET arr == vlist.items IN
       \/ /\ i < Len(arr) /\ item # arr[i + 1]
          /\ vlist' = [vlist EXCEPT !.items[i + 1] = item]
       \/ /\ i = Len(arr) /\ i < MaxCount
          /\ vlist' = [vlist EXCEPT !.items = Append(arr, item)]
       \/ /\ i = Len(arr) - 1 /\ item = Undefined
          /\ vlist' = [vlist EXCEPT !.items = SubSeq(arr, 1, i)]
  /\ lastOp' = [op |-> "mutate", arg |-> 0, stat |-> NoStat]
  /\ winHist' = [winHist EXCEPT !.sets = @ + 1, !.dirty = TRUE]
  /\ UNCHANGED host
  /\ UNCHANGED <<prog, hist, listVars, asyncVars>>

WindowInit ==
  /\ value = [c \in AllCells |-> IF c \in Cells THEN 0 ELSE Undef]
  /\ subscribers = [c \in AllCells |-> <<>>]
  /\ dependencies = [h \in Handles |-> {}]
  /\ running = [h \in Handles |-> FALSE]
  /\ effectStack = <<>>
  /\ body = [h \in Handles |-> <<>>]
  /\ status = [h \in Handles |-> "none"]
  /\ frames = <<>>
  /\ thrown = 0
  /\ ret = 0
  /\ lastReads = [h \in Handles |-> {}]
  /\ everRead = [h \in Handles |-> {}]
  /\ disposed = [h \in Handles |-> FALSE]
  /\ runs = [h \in Handles |-> 0]
  /\ changedCells = {}
  /\ readOrder = [c \in AllCells |-> <<>>]
  /\ items = <<>>
  /\ keyToNode = [k \in 1..NumKeys |-> [node |-> 0, item |-> <<0, 0>>]]
  /\ children = <<>>
  /\ where = "none"
  /\ isFirstRun = TRUE
  /\ raised = FALSE
  /\ writes = 0
  /\ lastPass = [ran |-> FALSE, reconciled |-> FALSE, renders |-> 0,
                 removes |-> 0, inserts |-> 0, threw |-> FALSE]
  /\ \E arr \in InitialArrays : vlist = [NoWindow EXCEPT !.items = arr]
  /\ host = NoHost
  /\ lastOp = NoOp
  /\ winHist = NoHist
  /\ createdBy = [h \in Handles |-> 0]
  /\ hook = "none"
  /\ data = Null
  /\ loading = FALSE
  /\ error = Null
  /\ abortController = 0
  /\ isCancelled = FALSE
  /\ requests = NoRequests
  /\ lastSettle = NoSettle

NextWindow ==
  \/ \E cfg \in Configs : createVirtualList(cfg)
  \/ \E pos \in 0..(MaxCount * MaxItemHeight) : Scroll(pos)
  \/ Reflow
  \/ DispatchScroll
  \/ AnimationFrame
  \/ \E index \in 0..MaxCount : scrollToIndex(index)
  \/ refresh
  \/ destroy
  \/ \E arr \in SourceArrays : SetItems(arr)
  \/ \E i \in 0..MaxCount, item \in {Undefined} \cup ItemObjects : Mutate(i, item)

SpecWindow == WindowInit /\ [][NextWindow]_vars

\* ------------------------------------------------------------ specification
Init ==
  /\ value \in {f \in [AllCells -> Values \cup {Undef}] :
                  \A c \in AllCells : f[c] = Undef <=> c \notin Cells}
  /\ subscribers = [c \in AllCells |-> <<>>]
  /\ dependencies = [h \in Handles |-> {}]
  /\ running = [h \in Handles |-> FALSE]
  /\ effectStack = <<>>
  /\ body = [h \in Handles |-> <<>>]
  /\ status = [h \in Handles |-> "none"]
  /\ frames = <<>>
  /\ thrown = 0
  /\ ret = 0
  /\ lastReads = [h \in Handles |-> {}]
  /\ everRead = [h \in Handles |-> {}]
  /\ disposed = [h \in Handles |-> FALSE]
  /\ runs = [h \in Handles |-> 0]
  /\ changedCells = {}
  /\ readOrder = [c \in AllCells |-> <<>>]
  /\ items = <<>>
  /\ keyToNode = [k \in 1..NumKeys |-> [node |-> 0, item |-> <<0, 0>>]]
  /\ children = <<>>
  /\ where = "none"
  /\ isFirstRun = TRUE
  /\ raised = FALSE
  /\ writes = 0
  /\ lastPass = [ran |-> FALSE, reconciled |-> FALSE, renders |-> 0,
                 removes |-> 0, inserts |-> 0, threw |-> FALSE]
  /\ vlist = NoWindow
  /\ host = NoHost
  /\ lastOp = NoOp
  /\ winHist = NoHist
  /\ createdBy = [h \in Handles |-> 0]
  /\ hook = "none"
  /\ data = Null
  /\ loading = FALSE
  /\ error = Null
  /\ abortController = 0
  /\ isCancelled = FALSE
  /\ requests = NoRequests
  /\ lastSettle = NoSettle

Next ==
  \/ \E p \in Programs : Effect(p)
  \/ \E c \in Cells, v \in Values : TopWrite(c, "const", v)
  \/ \E c \in Cells, k \in {"inc", "keep"} : TopWrite(c, k, 0)
  \/ \E c \in Cells : TopRead(c)
  \/ \E h \in Handles : TopDispose(h)
  \/ BodyRead
  \/ BodyBranch
  \/ BodyWrite
  \/ BodyThrow
  \/ BodyDispose
  \/ BodyEffect
  \/ BodyReturn
  \/ NotifyStep
  \/ NotifyReturn
  \/ Unwind

Spec == Init /\ [][Next]_vars

\* An application that builds a graph of computed cells over the signals and
\* writes the signals.
AllComputedPrograms == UNION {ComputedPrograms(h) : h \in Handles}

NextComputed ==
  \/ \E p \in AllComputedPrograms : Computed(p)
  \/ \E c \in Cells, v \in Values : TopWrite(c, "const", v)
  \/ BodyRead
  \/ BodyBranch
  \/ BodyWrite
  \/ BodyReturn
  \/ NotifyStep
  \/ NotifyReturn

SpecComputed == Init /\ [][NextComputed]_vars

\* ------------------------------------------------------- keyed list (list.js)
KeySet == 1..NumKeys

\* nodes renderFn can return: enough for everything alive during one pass
NumNodes == 3 * MaxLen

Nodes == 1..NumNodes

\* `document.createComment("list-start")`, `document.createComment("list-end")`
StartMarker == NumNodes + 1

EndMarker == NumNodes + 2

\* the cell of the source signal and the handle of the effect list() creates
SourceCell == 1

ListHandle == 1

\* an item is <<key, data>>; the arrays the application gives the source signal
Item == KeySet \X (0..(NumData - 1))

\* what an item holds goes with its place in the array, so that a key that
\* moves comes with a new item and two equal keys come with different items
MakeArray(ks) == [i \in 1..Len(ks) |-> <<ks[i], i % NumData>>]

Arrays == {MakeArray(ks) : ks \in UNION {[1..n -> KeySet] : n \in 0..MaxLen}}

\* `items.map(keyFn)`
newKeys(arr) == [i \in 1..Len(arr) |-> arr[i][1]]

\* a Map without entries; Map.prototype.has
NoEntry == [node |-> Null, item |-> <<0, 0>>]

EmptyMap == [k \in KeySet |-> NoEntry]

Has(map, k) == map[k] # NoEntry

\* index of node n among the children ch
IndexOf(ch, n) == CHOOSE i \in 1..Len(ch) : ch[i] = n

NextSiblingStuck(ch, n) == n

\* `node.nextSibling`
NextSibling(ch, n) ==
  IF IndexOf(ch, n) = Len(ch) THEN Null ELSE ch[IndexOf(ch, n) + 1]

\* `node.remove()`
RemoveNode(ch, n) == SelectSeq(ch, LAMBDA m : m # n)

InsertAtEnd(ch, n, ref) == Append(RemoveNode(ch, n), n)

\* `parent.insertBefore(n, ref)`: n leaves the place it had, if any
InsertBefore(ch, n, ref) ==
  LET without == RemoveNode(ch, n) IN
    IF ref = Null
      THEN Append(without, n)
      ELSE SubSeq(without, 1, IndexOf(without, ref) - 1) \o <<n>>
             \o SubSeq(without, IndexOf(without, ref), Len(without))

\* the node a call of renderFn returns: one that is not in use
Fresh(used) == CHOOSE n \in Nodes : n \notin used /\ \A m \in 1..(n - 1) : m \in used

\* the nodes a Map and a child list hold
NodesOf(map, ch) == {map[k].node : k \in KeySet} \cup Range(ch)

staleKeysNone(map, ks) == {}

\* reconcile, step 1: the keys whose nodes are removed
staleKeys(map, ks) == {k \in KeySet : Has(map, k) /\ k \notin Range(ks)}

step1Map(map, ks) == [k \in KeySet |-> IF k \in staleKeys(map, ks) THEN NoEntry ELSE map[k]]

step1Children(map, ch, ks) ==
  SelectSeq(ch, LAMBDA n : n \notin {map[k].node : k \in staleKeys(map, ks)})

step2ReusesNever(st, key) == FALSE

\* `if (keyToNode.has(key))`
step2Reuses(st, key) == Has(st.old, key)

\* reconcile, step 2, from item i on.  st.old: keyToNode, whose entries are
\* shared with newKeyToNode, st.new; st.made: the nodes created; st.renders:
\* calls of renderFn; st.threw: the last of them threw.  renderFn throws on
\* its throwAt-th call of the pass (0: never).
RECURSIVE step2(_, _, _, _, _)
step2(arr, i, st, used, throwAt) ==
  IF i > Len(arr) THEN st
  ELSE LET item == arr[i]
           key  == arr[i][1] IN
    IF step2Reuses(st, key)
      THEN step2(arr, i + 1,
                 [st EXCEPT !.new[key] = [node |-> st.old[key].node, item |-> item],
                            !.old[key] = [node |-> st.old[key].node, item |-> item]],
                 used, throwAt)
      ELSE IF st.renders + 1 = throwAt
        THEN [st EXCEPT !.renders = @ + 1, !.threw = TRUE]
        ELSE LET node == Fresh(used \cup st.made) IN
          step2(arr, i + 1,
                [st EXCEPT !.new[key] = [node |-> node, item |-> item],
                           !.made = @ \cup {node},
                           !.renders = @ + 1],
                used, throwAt)

\* `if (currentNode !== targetNode)`
step3Moves(cur, target) == cur # target

\* reconcile, step 3, from key i on; cur: currentNode
RECURSIVE step3(_, _, _, _, _, _)
step3(ks, i, new, ch, cur, inserts) ==
  IF i > Len(ks) THEN [children |-> ch, inserts |-> inserts]
  ELSE LET target == new[ks[i]].node IN
    IF step3Moves(cur, target)
      THEN step3(ks, i + 1, new, InsertBefore(ch, target, cur), cur, inserts + 1)
      ELSE step3(ks, i + 1, new, ch, NextSibling(ch, cur), inserts)

\* what a source write made the list do: ran, the effect was invoked;
\* reconciled, reconcile went past its parent check; the calls of renderFn,
\* node.remove and insertBefore counted; threw, renderFn threw
Pass(ran, reconciled, renders, removes, inserts, threw) ==
  [ran |-> ran, reconciled |-> reconciled, renders |-> renders,
   removes |-> removes, inserts |-> inserts, threw |-> threw]

\* reconcile after step 3 (s3): `keyToNode = newKeyToNode; return true`
afterStep3(st, gone, s3) ==
  [keyToNode |-> st.new, children |-> s3.children, threw |-> FALSE,
   pass |-> Pass(TRUE, TRUE, st.renders, gone, s3.inserts, FALSE)]

afterStep2Rollback(st, ch1, gone, ks) ==
  IF st.threw
    THEN [keyToNode |-> keyToNode, children |-> children, threw |-> TRUE,
          pass |-> Pass(TRUE, TRUE, st.renders, gone, 0, TRUE)]
    ELSE afterStep3(st, gone,
                    step3(ks, 1, st.new, ch1, NextSibling(ch1, StartMarker), 0))

\* reconcile after step 2 (st): an error of renderFn leaves reconcile there,
\* with keyToNode not replaced; ch1: the children step 1 left, gone: the
\* number of nodes it removed
afterStep2(st, ch1, gone, ks) ==
  IF st.threw
    THEN [keyToNode |-> st.old, children |-> ch1, threw |-> TRUE,
          pass |-> Pass(TRUE, TRUE, st.renders, gone, 0, TRUE)]
    ELSE afterStep3(st, gone,
                    step3(ks, 1, st.new, ch1, NextSibling(ch1, StartMarker), 0))

\* reconcile(arr): the Map, the children and the counts it leaves
reconcile(arr, throwAt) ==
  IF where = "gone"
    THEN \* `if (!parent) return false`
         [keyToNode |-> keyToNode, children |-> children, threw |-> FALSE,
          pass |-> Pass(TRUE, FALSE, 0, 0, 0, FALSE)]
    ELSE afterStep2(step2(arr, 1,
                          [old |-> step1Map(keyToNode, newKeys(arr)),
                           new |-> EmptyMap, made |-> {}, renders |-> 0,
                           threw |-> FALSE],
                          NodesOf(keyToNode, children), throwAt),
                    step1Children(keyToNode, children, newKeys(arr)),
                    Cardinality(staleKeys(keyToNode, newKeys(arr))),
                    newKeys(arr))

initialMapFirstWins(arr) ==
  [k \in KeySet |->
     IF k \in Range(newKeys(arr))
       THEN LET first == CHOOSE i \in 1..Len(arr) :
                           arr[i][1] = k /\ \A j \in 1..(i - 1) : arr[j][1] # k
            IN [node |-> first, item |-> arr[first]]
       ELSE NoEntry]

\* initialRender(items): the i-th call of renderFn returns node i
initialMap(arr) ==
  [k \in KeySet |->
     IF k \in Range(newKeys(arr))
       THEN LET last == CHOOSE i \in 1..Len(arr) :
                          arr[i][1] = k /\ \A j \in (i + 1)..Len(arr) : arr[j][1] # k
            IN [node |-> last, item |-> arr[last]]
       ELSE NoEntry]

initialChildren(arr) == <<StartMarker>> \o [i \in 1..Len(arr) |-> i] \o <<EndMarker>>

\* list(signal, keyFn, renderFn): the first render, then the effect, whose
\* first run only reads the signal.  The application puts the fragment it
\* gets into the container at once, by mount() or appendChild.
List(throwAt) ==
  /\ where = "none"
  /\ IF throwAt \in 1..Len(items)
       THEN /\ raised' = TRUE
            /\ UNCHANGED <<keyToNode, children, where, isFirstRun, subscribers,
                           dependencies, status>>
       ELSE /\ raised' = FALSE
            /\ keyToNode' = initialMap(items)
            /\ children' = initialChildren(items)
            /\ where' = "mounted"
            /\ isFirstRun' = FALSE
            /\ subscribers' = [subscribers EXCEPT ![SourceCell] = SetAdd(@, ListHandle)]
            /\ dependencies' = [dependencies EXCEPT ![ListHandle] = @ \cup {SourceCell}]
            /\ status' = [status EXCEPT ![ListHandle] = "live"]
  /\ UNCHANGED <<items, writes, lastPass>>
  /\ UNCHANGED <<value, running, effectStack, body, frames, thrown, ret,
                 lastReads, everRead, disposed, hist, winVars, asyncVars>>

\* unmount(container): `container.replaceChildren()`.  direct: the markers
\* are children of the container itself, else of an element inside it.
unmount(direct) ==
  /\ where = "mounted"
  /\ where' = IF direct THEN "gone" ELSE "detached"
  /\ children' = IF direct THEN <<>> ELSE children
  /\ UNCHANGED <<items, keyToNode, isFirstRun, raised, writes, lastPass>>
  /\ UNCHANGED <<prog, hist, winVars, asyncVars>>

\* setItems(arr) with a new array: the value changes, the forEach invokes the
\* effect of the list, which reads the signal again and reconciles
ListWrite(arr, throwAt) ==
  /\ where # "none"
  /\ writes < MaxWrites
  /\ writes' = writes + 1
  /\ items' = arr
  /\ IF ListHandle \in Range(snapshot(SourceCell)) /\ mayNotify(ListHandle)
       THEN \E r \in {reconcile(arr, throwAt)} :
              /\ subscribers' =
                   [cleanupSubscribers(ListHandle) EXCEPT
                      ![SourceCell] = SetAdd(@, ListHandle)]
              /\ dependencies' = [dependencies EXCEPT ![ListHandle] = {SourceCell}]
              /\ keyToNode' = r.keyToNode
              /\ children' = r.children
              /\ raised' = /\ r.threw
                            /\ ~catches(BodyFrame(ListHandle, FALSE))
                            /\ ~catches(NotifyFrame(SourceCell, snapshot(SourceCell), {}, {}))
              /\ lastPass' = r.pass
       ELSE /\ raised' = FALSE
            /\ lastPass' = Pass(FALSE, FALSE, 0, 0, 0, FALSE)
            /\ UNCHANGED <<subscribers, dependencies, keyToNode, children>>
  /\ UNCHANGED <<where, isFirstRun>>
  /\ UNCHANGED <<value, running, effectStack, body, status, frames, thrown, ret,
                 lastReads, everRead, disposed, hist, winVars, asyncVars>>

\* setItems(items) with the array the signal already holds: `!==` is false
ListWriteSame ==
  /\ where # "none"
  /\ writes < MaxWrites
  /\ writes' = writes + 1
  /\ raised' = FALSE
  /\ lastPass' = Pass(FALSE, FALSE, 0, 0, 0, FALSE)
  /\ UNCHANGED <<items, keyToNode, children, where, isFirstRun>>
  /\ UNCHANGED <<prog, hist, winVars, asyncVars>>

ListInit ==
  /\ value = [c \in AllCells |-> IF c \in Cells THEN 0 ELSE Undef]
  /\ subscribers = [c \in AllCells |-> <<>>]
  /\ dependencies = [h \in Handles |-> {}]
  /\ running = [h \in Handles |-> FALSE]
  /\ effectStack = <<>>
  /\ body = [h \in Handles |-> <<>>]
  /\ status = [h \in Handles |-> "none"]
  /\ frames = <<>>
  /\ thrown = 0
  /\ ret = 0
  /\ lastReads = [h \in Handles |-> {}]
  /\ everRead = [h \in Handles |-> {}]
  /\ disposed = [h \in Handles |-> FALSE]
  /\ runs = [h \in Handles |-> 0]
  /\ changedCells = {}
  /\ readOrder = [c \in AllCells |-> <<>>]
  /\ items \in Arrays
  /\ keyToNode = EmptyMap
  /\ children = <<>>
  /\ where = "none"
  /\ isFirstRun = TRUE
  /\ raised = FALSE
  /\ writes = 0
  /\ lastPass = Pass(FALSE, FALSE, 0, 0, 0, FALSE)
  /\ vlist = NoWindow
  /\ host = NoHost
  /\ lastOp = NoOp
  /\ winHist = NoHist
  /\ createdBy = [h \in Handles |-> 0]
  /\ hook = "none"
  /\ data = Null
  /\ loading = FALSE
  /\ error = Null
  /\ abortController = 0
  /\ isCancelled = FALSE
  /\ requests = NoRequests
  /\ lastSettle = NoSettle

NextList ==
  \/ \E t \in 0..MaxLen : List(t)
  \/ \E direct \in BOOLEAN : unmount(direct)
  \/ \E arr \in Arrays, t \in 0..MaxLen : ListWrite(arr, t)
  \/ ListWriteSame

SpecList == ListInit /\ [][NextList]_vars

\* An application whose effects derive one signal from another, possibly in a
\* circle, and that writes the signals.
NextCycle ==
  \/ \E p \in Ring : Effect(p)
  \/ \E c \in Cells, v \in Values : TopWrite(c, "const", v)
  \/ BodyRead
  \/ BodyWrite
  \/ BodyReturn
  \/ NotifyStep
  \/ NotifyReturn

SpecCycle == Init /\ [][NextCycle]_vars

\* An application whose effects read and write the signals, in a ring or
\* on themselves, without creating effects, throwing or disposing.  Once a
\* call is on the JavaScript stack the runtime goes on executing it.
Writers == Observer \cup Conditional \cup SelfWriter \cup KeepWriter \cup Ring

Cascade ==
  \/ BodyRead
  \/ BodyBranch
  \/ BodyWrite
  \/ BodyReturn
  \/ NotifyStep
  \/ NotifyReturn

NextCascade ==
  \/ \E p \in Writers : Effect(p)
  \/ \E c \in Cells, v \in Values : TopWrite(c, "const", v)
  \/ \E c \in Cells : TopWrite(c, "inc", 0)
  \/ BodyRead
  \/ BodyBranch
  \/ BodyWrite
  \/ BodyReturn
  \/ NotifyStep
  \/ NotifyReturn

SpecCascade == Init /\ [][NextCascade]_vars /\ WF_vars(Cascade)

\* An application that calls useAsync once and then refetch and abort, while
\* the promises settle in any order.
AsyncInit == Init /\ value = [c \in AllCells |-> IF c \in Cells THEN 0 ELSE Undef]

NextAsync ==
  \/ useAsync
  \/ refetch
  \/ abort
  \/ \E r \in Requests, o \in Outcomes : Settle(r, o)

SpecAsync == AsyncInit /\ [][NextAsync]_vars

\* ------------------------------------------------------- claim vocabulary
\* fn of h is on the JavaScript call stack
Executing(h) == \E i \in 1..Len(frames) : frames[i].kind = "body" /\ frames[i].h = h

NoEffectExecuting == \A h \in Handles : ~Executing(h)

\* the cells in whose subscriber set h is
SubscribedTo(h) == {c \in AllCells : h \in Range(subscribers[c])}

NoDuplicates(s) == \A i, j \in 1..Len(s) : i # j => s[i] # s[j]

\* the handles of the executing bodies, outermost first
BodyHandles ==
  LET bodies == SelectSeq(frames, LAMBDA f : f.kind = "body")
  IN  [i \in 1..Len(bodies) |-> bodies[i].h]

\* fn of a computed evaluated on the current values: the value of
\* `fn()` were it called now, statement pc onwards with x read so far.
RECURSIVE FnValue(_, _, _)
FnValue(p, pc, x) ==
  IF pc > Len(p) THEN Undef
  ELSE LET st == p[pc] IN
    CASE st.op = "read"   -> FnValue(p, pc + 1, value[st.c])
      [] st.op = "add"    -> FnValue(p, pc + 1, (x + value[st.c]) % NumValues)
      [] st.op = "skipnz" -> FnValue(p, pc + (IF x # 0 THEN 1 + st.c ELSE 1), x)
      [] st.op = "write"  -> nextValue(st.k, st.v, value[st.c], x)
      [] OTHER            -> Undef

\* handle h belongs to a computed cell
IsComputed(h) ==
  /\ status[h] # "none"
  /\ body[h][Len(body[h])].op = "write"
  /\ body[h][Len(body[h])].c = Own(h)

\* the computed cell of h holds what its fn yields now
Current(h) == value[Own(h)] = FnValue(body[h], 1, 0)

\* ----------------------------------------------------------------- claims
\* C1: whenever no effect is executing, a handle that was not disposed is in
\* a cell's subscriber set exactly if its most recent run read that cell.
SubscribersMirrorLastRun ==
  NoEffectExecuting =>
    \A h \in Handles : ~disposed[h] => SubscribedTo(h) = lastReads[h]

\* C1 witness: at rest, a live handle is subscribed to what its last run
\* read, having dropped a cell an earlier run had read.
SubscribersMirrorLastRunWitness ==
  /\ Idle
  /\ \E h \in Handles :
       /\ status[h] = "live" /\ ~disposed[h]
       /\ lastReads[h] # {}
       /\ everRead[h] \ lastReads[h] # {}

\* C2: dependency shrink.  A value-changing write to a cell does not notify a
\* handle that read the cell in an earlier run but not in its most recent one.
DependencyShrink ==
  [][\A c \in Cells :
       value'[c] # value[c] =>
         \A h \in Handles :
           (c \in everRead[h] /\ c \notin lastReads[h]) =>
             h \notin Range(Top(frames').subs)]_vars

\* C2 witness: a write to c has just begun notifying while a live handle that
\* used to read c, and still reads another cell, is left out.
DependencyShrinkWitness ==
  /\ InNotify
  /\ Top(frames).i = 1
  /\ \E h \in Handles :
       /\ status[h] = "live" /\ ~disposed[h] /\ ~running[h]
       /\ Top(frames).cell \in everRead[h] \ lastReads[h]
       /\ lastReads[h] # {}
       /\ h \notin Range(Top(frames).subs)

\* C3: no self re-entrance.  No handle is on the active-execution stack
\* twice, and no body is entered while it is already executing.
NoSelfReentrance ==
  /\ NoDuplicates(effectStack)
  /\ NoDuplicates(BodyHandles)

\* C3 witness: the forEach of a write made by h's own body has passed over
\* h, a subscriber of the written cell, without invoking it.
NoSelfReentranceWitness ==
  /\ InNotify
  /\ Len(frames) > 1
  /\ LET f == Top(frames)
         w == frames[Len(frames) - 1] IN
       /\ w.kind = "body"
       /\ f.i > 1
       /\ f.subs[f.i - 1] = w.h
       /\ w.h \notin Range(f.ran)

\* effect(fn) runs fn once before it returns: while effect() has not returned
\* there is exactly one activation of fn, the one effect() made.
RunsOnceOnCreation ==
  \A h \in Handles :
    /\ status[h] = "none" => ~Executing(h)
    /\ status[h] = "creating" =>
         /\ Cardinality({i \in 1..Len(frames) :
                           frames[i].kind = "body" /\ frames[i].h = h}) = 1
         /\ \E i \in 1..Len(frames) :
              frames[i].kind = "body" /\ frames[i].h = h /\ frames[i].create

\* The forEach f invoked nothing but handles whose latest run had read the
\* cell, none of them twice.
OnlyReaders(f) == Range(f.ran) \subseteq f.readers /\ NoDuplicates(f.ran)

\* The forEach f invoked every handle that was due.
AllDue(f) == f.due \subseteq Range(f.ran)

\* C4 as stated: effect(fn) runs fn once before returning; afterwards every
\* value-changing write runs, once each, the handles whose most recent run
\* read the cell (and that are not executing), and no others.
RunsOncePerWrite ==
  /\ RunsOnceOnCreation
  /\ \A j \in 1..Len(frames) :
       frames[j].kind = "notify" =>
         /\ OnlyReaders(frames[j])
         /\ (thrown # 0 \/ frames[j].i > Len(frames[j].subs)) => AllDue(frames[j])

\* C4 amended: as above, except that a write whose notification pass is left
\* by an exception does not run the subscribers after the throwing one.
RunsOncePerCompletedWrite ==
  /\ RunsOnceOnCreation
  /\ \A j \in 1..Len(frames) :
       frames[j].kind = "notify" =>
         /\ OnlyReaders(frames[j])
         /\ (thrown = 0 /\ frames[j].i > Len(frames[j].subs)) => AllDue(frames[j])

\* C4 witness: one write has run two handles, once each, and is returning.
RunsOncePerCompletedWriteWitness ==
  /\ InNotify
  /\ Top(frames).i > Len(Top(frames).subs)
  /\ Len(Top(frames).ran) >= 2
  /\ Range(Top(frames).ran) = Top(frames).due

\* C7: dispose() makes the effect inert.  Once dispose() has been called for a
\* handle, from the top level or from inside another body, no run of its
\* callback begins any more and, whenever it is not executing, it is in no
\* subscriber set.
DisposedIsInert ==
  [][\A h \in Handles :
       disposed[h] =>
         /\ Executing(h)' => Executing(h)
         /\ ~Executing(h)' => SubscribedTo(h)' = {}]_vars

\* C8: the execution stack is released on every exit path.  The stack holds
\* exactly the handles of the bodies on the call stack and a handle is flagged
\* running exactly while its body is there, whether bodies return or throw;
\* so at rest the stack is empty and a top-level read registers nothing.
StackReleased ==
  /\ effectStack = BodyHandles
  /\ \A h \in Handles : running[h] <=> Executing(h)
  /\ frames = <<>> =>
       /\ effectStack = <<>>
       /\ \A c \in AllCells :
            readSubscribers(c) = subscribers /\ readDependencies(c) = dependencies

\* C8 witness: a handle whose body threw during a write is executing again,
\* run by a later write.
StackReleasedWitness ==
  /\ thrown = 0
  /\ \E h \in Handles : ret = h /\ Executing(h) /\ status[h] = "live"

\* C9: an error thrown by a body leaves every call on the stack, up to the
\* top-level caller, without anything else running; afterwards the throwing
\* handle (unless disposed) is subscribed to exactly the cells it read before
\* the throw.
ErrorPropagates ==
  [][/\ thrown # 0 =>
          /\ frames' = Pop(frames)
          /\ UNCHANGED <<value, subscribers, dependencies>>
          /\ Len(frames) > 1 => thrown' = thrown
          /\ Len(frames) = 1 => thrown' = 0 /\ ret' = thrown
     /\ \A h \in Handles :
          (thrown' = h \/ (Idle' /\ ret' = h)) /\ ~disposed'[h] =>
            SubscribedTo(h)' = lastReads'[h]]_vars

\* C9 witness: a top-level write has thrown the error of a live handle, which
\* is subscribed to what it read before throwing and not to a cell it read
\* in an earlier run past the point of the throw.
ErrorPropagatesWitness ==
  /\ Idle
  /\ \E h \in Handles :
       /\ ret = h /\ status[h] = "live" /\ ~disposed[h]
       /\ lastReads[h] # {}
       /\ SubscribedTo(h) = lastReads[h]
       /\ everRead[h] \ lastReads[h] # {}

\* a write whose resolved value is identical to the current one
SameValueWrite ==
  \/ \E c \in Cells, k \in {"const", "inc", "keep"}, v \in Values :
       TopWrite(c, k, v) /\ nextValue(k, v, value[c], 0) = value[c]
  \/ /\ BodyWrite
     /\ nextValue(CurStmt.k, CurStmt.v, value[CurStmt.c], Top(frames).x) = value[CurStmt.c]

\* C10: a write whose resolved value is identical to the current value
\* changes neither the value nor any subscriber set, and notifies nobody.
SameValueWriteIsInert ==
  [][SameValueWrite =>
       /\ UNCHANGED <<value, subscribers, dependencies, running, effectStack>>
       /\ Len(frames') = Len(frames)]_vars

\* C10 witness: a body has just written back the value a cell already had,
\* a cell that another, idle handle subscribes to.
SameValueWriteIsInertWitness ==
  /\ InBody
  /\ Top(frames).pc > 1
  /\ LET f == Top(frames)
         st == body[f.h][f.pc - 1] IN
       /\ st.op = "write" /\ st.k = "keep"
       /\ \E g \in Handles \ {f.h} : g \in Range(subscribers[st.c]) /\ ~running[g]

\* C5: a computed cell is kept current.  Once computed(fn) has returned, and
\* whenever no call is in progress, every computed cell holds fn applied to
\* the current values of the cells fn reads.
ComputedIsCurrent ==
  Idle => \A h \in Handles : (IsComputed(h) /\ status[h] = "live") => Current(h)

\* C5 witness: at rest, a computed cell whose fn reads two other computed
\* cells (a diamond) holds the non-zero value its fn yields.
ComputedIsCurrentWitness ==
  /\ Idle
  /\ \E h \in Handles :
       /\ IsComputed(h) /\ status[h] = "live"
       /\ Cardinality(lastReads[h] \ Cells) = 2
       /\ Current(h)
       /\ value[Own(h)] # 0

\* the cell the one-argument fn of computed handle h reads
Pred(h) == body[h][1].c

\* the computed cells form a chain: the first reads a signal, the root, and
\* each later one reads only the computed cell made just before it
IsChain ==
  /\ status[1] # "none"
  /\ \A h \in Handles :
       status[h] # "none" =>
         /\ IsComputed(h)
         /\ Len(body[h]) = 2
         /\ IF h = 1 THEN Pred(h) \in Cells ELSE Pred(h) = Own(h - 1)

\* a top-level write to cell c has notified everybody and is about to return
WriteReturning(c) ==
  /\ thrown = 0
  /\ Len(frames) = 1
  /\ frames[1].kind = "notify"
  /\ frames[1].cell = c
  /\ frames[1].i > Len(frames[1].subs)

\* a recomputation is about to read a computed cell that is not current
ReadsStale ==
  /\ AtStmt("read")
  /\ CurStmt.c \notin Cells
  /\ ~Current(Owner(CurStmt.c))

\* C6 as stated: in a chain, one value-changing write to the root recomputes
\* every downstream cell exactly once, and no recomputation reads a stale
\* predecessor.
ChainRecomputesEachOnce ==
  IsChain =>
    /\ ~ReadsStale
    /\ WriteReturning(Pred(1)) =>
         \A h \in Handles : status[h] = "live" => runs[h] = 1

\* C6 amended: in a chain, one value-changing write to the root recomputes
\* a downstream cell exactly once if the value of its predecessor changed and
\* not at all otherwise, and no recomputation reads a stale predecessor.
ChainRecomputesChangedOnce ==
  IsChain =>
    /\ ~ReadsStale
    /\ WriteReturning(Pred(1)) =>
         \A h \in Handles :
           status[h] = "live" =>
             runs[h] = (IF Pred(h) \in changedCells THEN 1 ELSE 0)

\* C6 witness: a write to the root of a chain of three computed cells is
\* returning, each of them recomputed once to a new value.
ChainRecomputesChangedOnceWitness ==
  /\ IsChain
  /\ WriteReturning(Pred(1))
  /\ \A h \in Handles : status[h] = "live" /\ runs[h] = 1 /\ Own(h) \in changedCells

\* position of x in the sequence s
Pos(s, x) == CHOOSE i \in 1..Len(s) : s[i] = x

\* the handles of subs that were not disposed stand in subs in the order in
\* which they stand in order
InOrder(subs, order) ==
  \A i, j \in 1..Len(subs) :
    (i < j /\ ~disposed[subs[i]] /\ ~disposed[subs[j]]) =>
      /\ subs[i] \in Range(order)
      /\ subs[j] \in Range(order)
      /\ Pos(order, subs[i]) < Pos(order, subs[j])

\* the forEach f has invoked handles in the order of its array, skipping some
InvokedInArrayOrder(f) ==
  f.ran = SelectSeq(SubSeq(f.subs, 1, f.i - 1), LAMBDA h : h \in Range(f.ran))

\* C11: a value-changing write invokes the subscribers that are not executing
\* in registration order: the array its forEach walks lists the handles in
\* the order in which their latest runs first read the cell, and the forEach
\* invokes them in the order of that array.
NotifiesInRegistrationOrder ==
  [][/\ \A j \in 1..Len(frames) :
          frames[j].kind = "notify" => InvokedInArrayOrder(frames[j])
     /\ \A c \in AllCells :
          (value'[c] # value[c] /\ Top(frames').kind = "notify") =>
            InOrder(Top(frames').subs, readOrder[c])]_vars

\* C11 witness: a write has invoked two handles, the one created later
\* first, because the one created earlier re-registered in a later run.
NotifiesInRegistrationOrderWitness ==
  /\ InNotify
  /\ Top(frames).i > Len(Top(frames).subs)
  /\ Top(frames).ran = <<2, 1>>
  /\ ~disposed[1] /\ ~disposed[2]

\* C12: nested effect attribution.  A read made by a body, whether an inner
\* callback still inside the effect() call of an outer body or the outer body
\* after that call has returned, registers the handle of that body with the
\* cell and changes the registrations of no other handle.
NestedReadsAttributed ==
  [][(AtStmt("read") \/ AtStmt("add")) =>
       LET h == Top(frames).h
           c == CurStmt.c IN
         /\ h \in Range(subscribers'[c])
         /\ c \in dependencies'[h]
         /\ \A g \in Handles \ {h} :
              /\ SubscribedTo(g)' = SubscribedTo(g)
              /\ dependencies'[g] = dependencies[g]]_vars

\* C12 witness: an outer body that created an inner effect reading b and
\* then read another cell c itself is about to return; the inner handle is
\* subscribed to b alone and the outer handle to c alone.
NestedReadsAttributedWitness ==
  /\ InBody
  /\ LET h == Top(frames).h IN
       /\ body[h] \in Nester
       /\ Top(frames).pc > Len(body[h])
       /\ body[h][1].c # body[h][2].c
       /\ SubscribedTo(h) = {body[h][2].c}
       /\ \E g \in Handles \ {h} :
            /\ status[g] = "live"
            /\ body[g] = <<RdS(body[h][1].c)>>
            /\ SubscribedTo(g) = {body[h][1].c}
            /\ lastReads[g] = {body[h][1].c}

\* effects g and h are live and each reads the cell the other writes
InCycle(g, h) ==
  /\ g # h
  /\ status[g] = "live" /\ status[h] = "live"
  /\ body[g] \in Ring /\ body[h] \in Ring
  /\ body[g][1].c = body[h][2].c
  /\ body[h][1].c = body[g][2].c
  /\ body[g][1].c \in SubscribedTo(g)
  /\ body[h][1].c \in SubscribedTo(h)

\* the cycle of g and h has no fixed point: no values of the two cells
\* satisfy both derivations, so each round of the cycle changes a value
NoFixedPoint(g, h) ==
  ~ \E va \in Values, vb \in Values :
       /\ nextValue(body[g][2].k, 0, vb, va) = vb
       /\ nextValue(body[h][2].k, 0, va, vb) = va

GenuineCycle == \E g \in Handles, h \in Handles : InCycle(g, h) /\ NoFixedPoint(g, h)

Region(ch) ==
  IF StartMarker \in Range(ch) /\ EndMarker \in Range(ch)
    THEN SubSeq(ch, IndexOf(ch, StartMarker) + 1, IndexOf(ch, EndMarker) - 1)
    ELSE <<>>

MappedKeys(map) == {k \in KeySet : Has(map, k)}

MappedNodes(map) == {map[k].node : k \in MappedKeys(map)}

UniqueKeys(arr) == \A i, j \in 1..Len(arr) : i # j => arr[i][1] # arr[j][1]

\* the last item of arr with key k
LastWith(arr, k) ==
  arr[CHOOSE i \in 1..Len(arr) : arr[i][1] = k /\ \A j \in (i + 1)..Len(arr) : arr[j][1] # k]

\* the nodes the Map holds for the keys of arr, in the order of arr
NodesFor(map, arr) == [i \in 1..Len(arr) |-> map[arr[i][1]].node]

\* every node of the region belongs to a mapped key
NoOrphans == Range(Region(children)) \subseteq MappedNodes(keyToNode)

\* this step is a source write that invoked the effect of the list, whose
\* reconcile went past its parent check
IsPass == where' = where /\ lastPass'.ran /\ lastPass'.reconciled

\* this step is the call of list()
IsList == where = "none" /\ where' # "none"

\* the region shows the array the source holds, each key once
Settled ==
  /\ UniqueKeys(items)
  /\ MappedKeys(keyToNode) = Range(newKeys(items))
  /\ Region(children) = NodesFor(keyToNode, items)

\* ------------------------------------------------------ keyed list: claims
\* C14: reconciler completeness.  For a mounted list whose arrays have unique
\* keys, when a source write returns the nodes between the markers are the
\* nodes of the keys of the new array, in its order (the node a key already
\* had, a new node for a new key), and the mapped keys are exactly its keys.
\* Arrays with unique keys never leave a node in the region that no key maps.
ReconcilerComplete ==
  [][/\ (IsList /\ UniqueKeys(items')) => NoOrphans' /\ Settled'
     /\ (~IsList /\ NoOrphans) => NoOrphans'
     /\ (IsPass /\ where = "mounted" /\ ~raised' /\ UniqueKeys(items') /\ NoOrphans) =>
          /\ Settled'
          /\ \A k \in MappedKeys(keyToNode') :
               IF k \in MappedKeys(keyToNode)
                 THEN keyToNode'[k].node = keyToNode[k].node
                 ELSE keyToNode'[k].node \notin MappedNodes(keyToNode) \cup Range(children)]_vars

\* C14 witness: a write that removed a node, created one and inserted one
\* has left a mounted list showing its array.
ReconcilerCompleteWitness ==
  /\ where = "mounted"
  /\ Settled
  /\ Len(items) >= 2
  /\ lastPass.reconciled /\ ~raised
  /\ lastPass.removes >= 1 /\ lastPass.renders >= 1 /\ lastPass.inserts >= 1

\* C15: reconciler reuse.  A write whose keys are a permutation of the mapped
\* keys calls renderFn zero times and removes zero nodes; every node present
\* before is present after, every key keeps its node, and the region shows
\* the nodes in the new order.
ReconcilerReuses ==
  [][(/\ IsPass
      /\ UniqueKeys(items')
      /\ Range(newKeys(items')) = MappedKeys(keyToNode)) =>
        /\ lastPass'.renders = 0 /\ lastPass'.removes = 0
        /\ ~raised'
        /\ Range(children') = Range(children)
        /\ Len(children') = Len(children)
        /\ \A k \in KeySet : keyToNode'[k].node = keyToNode[k].node
        /\ SelectSeq(Region(children'), LAMBDA n : n \in MappedNodes(keyToNode))
             = NodesFor(keyToNode, items')]_vars

\* C15 witness: a list of three has been reordered by two insert-before
\* operations, without a call of renderFn or a removal (a reversal).
ReconcilerReusesWitness ==
  /\ where = "mounted"
  /\ Settled
  /\ Len(items) = 3
  /\ lastPass = Pass(TRUE, TRUE, 0, 0, 2, FALSE)

DuplicatesLastWins ==
  [][((IsList \/ (IsPass /\ ~raised')) /\ where' = "mounted") =>
       /\ MappedKeys(keyToNode') = Range(newKeys(items'))
       /\ \A k \in Range(newKeys(items')) :
            /\ keyToNode'[k].item = LastWith(items', k)
            /\ Cardinality({i \in 1..Len(children') : children'[i] = keyToNode'[k].node}) = 1]_vars

\* C18 witness: a pass over an array in which a key occurs twice, with
\* different items, has returned; the key maps the later item.
DuplicatesLastWinsWitness ==
  /\ where = "mounted"
  /\ lastPass.reconciled /\ ~raised
  /\ \E i, j \in 1..Len(items) :
       /\ i < j
       /\ items[i][1] = items[j][1]
       /\ items[i] # items[j]
       /\ keyToNode[items[i][1]].item = items[j]

\* C19: no rollback.  When renderFn throws during a pass the error reaches
\* the writer, and the Map and the region are what the pass had made of them
\* by then: the keys absent from the new array are dropped and their nodes
\* removed, the keys kept have their nodes (and the new items, up to the
\* throw), no new key is mapped, no node is moved or inserted.
AbortLeavesPartial ==
  [][(IsPass /\ lastPass'.threw) =>
       LET old == MappedKeys(keyToNode)
           new == Range(newKeys(items')) IN
         /\ raised'
         /\ MappedKeys(keyToNode') = old \cap new
         /\ \A k \in old \cap new :
              /\ keyToNode'[k].node = keyToNode[k].node
              /\ keyToNode'[k].item \in {keyToNode[k].item, LastWith(items', k)}
                   \cup {items'[i] : i \in 1..Len(items')}
         /\ children' =
              SelectSeq(children, LAMBDA n : n \notin {keyToNode[k].node : k \in old \ new})
         /\ lastPass'.inserts = 0]_vars

\* C19 witness: a pass threw at its second call of renderFn after it had
\* removed a node: the region is shorter than before and shows neither the
\* array written nor all the keys that were mapped.
AbortLeavesPartialWitness ==
  /\ where = "mounted"
  /\ raised
  /\ lastPass.renders = 2 /\ lastPass.removes >= 1
  /\ MappedKeys(keyToNode) # Range(newKeys(items))
  /\ MappedKeys(keyToNode) # {}

\* C20: reconciler lifecycle.  Once the region owning the list is unmounted
\* the effect of the list is no subscriber of the source, the Map holds no
\* node, and a write to the source invokes no code of the list.
UnmountDestroysReconciler ==
  [][where' \in {"gone", "detached"} =>
       /\ ListHandle \notin Range(subscribers'[SourceCell])
       /\ MappedKeys(keyToNode') = {}
       /\ (where = where' /\ items' # items) => ~lastPass'.ran]_vars

\* ------------------------------------------------ virtual list: vocabulary
\* the options are sizes a virtual list can be laid out with
ValidSizes == vlist.cfg.itemHeight > 0 /\ vlist.cfg.containerHeight > 0

\* floor(a / b) and ceil(a / b) for b > 0, by their defining inequalities
FloorOf(a, b) == CHOOSE q \in -1..a : q * b <= a /\ a < (q + 1) * b

CeilOf(a, b) == CHOOSE q \in 0..a : (q - 1) * b < a /\ a <= q * b

MaxOf(a, b) == IF a >= b THEN a ELSE b

MinOf(a, b) == IF a <= b THEN a ELSE b

\* ceil(viewportSize / itemSize) + 2 * buffer
WindowSize ==
  CeilOf(vlist.cfg.containerHeight, vlist.cfg.itemHeight) + 2 * vlist.cfg.buffer

\* ---------------------------------------------------- virtual list: claims
\* C21: window bound.  In every state of a virtual list with positive sizes
\* the item nodes in the content element, and the nodes cached, are at most
\* ceil(containerHeight / itemHeight) + 2 * buffer, whatever the item count.
WindowBound ==
  (vlist.created /\ ValidSizes) =>
    /\ Len(vlist.content) <= WindowSize
    /\ Cardinality(DOMAIN vlist.renderedNodes) <= WindowSize

\* C21 witness: scrolled away from the top, a list of more items than the
\* window holds shows exactly a window of them.
WindowBoundWitness ==
  /\ vlist.created /\ ValidSizes
  /\ vlist.scrollTop > 0
  /\ Len(vlist.items) > WindowSize
  /\ Len(vlist.content) = WindowSize

\* C22: getVisibleRange() is [max(0, floor(offset / itemHeight) - buffer),
\* min(count, floor(offset / itemHeight) + ceil(containerHeight / itemHeight)
\* + buffer)] for the value of the scrollTop signal and the length of the
\* array the items signal was last given (sizes positive); the two ranges
\* of the 10,000-item scenario are [0, 12] and [95, 112].
VisibleRangeFormula ==
  /\ (vlist.created /\ ValidSizes /\ ~winHist.dirty) =>
       LET first == FloorOf(vlist.scrollTop, vlist.cfg.itemHeight) IN
         getVisibleRange =
           [startIndex |-> MaxOf(0, first - vlist.cfg.buffer),
            endIndex   |-> MinOf(Len(vlist.items),
                                 first + WindowSize - vlist.cfg.buffer)]
  /\ rangeFor(10000, 0, Cfg(60, 400, 5)) = [startIndex |-> 0, endIndex |-> 12]
  /\ rangeFor(10000, 6000, Cfg(60, 400, 5)) = [startIndex |-> 95, endIndex |-> 112]

\* C22 witness: a frame callback has written an offset that is no multiple
\* of itemHeight, and the range no longer starts at 0.
VisibleRangeFormulaWitness ==
  /\ vlist.created /\ ValidSizes /\ ~winHist.dirty
  /\ lastOp.op = "frame"
  /\ vlist.scrollTop % vlist.cfg.itemHeight # 0
  /\ getVisibleRange.startIndex > 0
  /\ getVisibleRange.endIndex = Len(vlist.items)

\* C23: the visible range never has negative length: with positive sizes,
\* for every offset and every item count, 0 <= startIndex <= endIndex <=
\* count, also after the array shrank while the offset stayed large.
RangeNeverNegative ==
  (vlist.created /\ ValidSizes /\ ~winHist.dirty) =>
    /\ 0 <= getVisibleRange.startIndex
    /\ getVisibleRange.startIndex <= getVisibleRange.endIndex
    /\ getVisibleRange.endIndex <= Len(vlist.items)

\* C24: createVirtualList with itemHeight <= 0 or containerHeight <= 0 is
\* rejected: there is no virtual list with such sizes, no scroll listener
\* on its container, no effect in a subscriber Set.
BadSizesRejected ==
  ~ValidSizes =>
    /\ ~vlist.created
    /\ ~host.listener
    /\ \A c \in WinCells : vlist.subs[c] = <<>>

\* C25: scroll throttling.  However many scroll events are dispatched
\* between two frame callbacks, at most one callback is requested and not
\* yet run, a dispatched event writes nothing, only a frame callback (or
\* refresh()) writes the scrollTop signal, and a frame callback writes it
\* once.  The setTimeout variant guards `scrollTimeout` the same way.
ScrollThrottled ==
  [][/\ Cardinality(host'.rafQueue) <= 1
     /\ host'.rafQueue \subseteq {vlist'.rafId}
     /\ vlist'.scrollTop # vlist.scrollTop => lastOp'.op \in {"frame", "refresh"}
     /\ lastOp'.op = "dispatch" => /\ vlist'.scrollTop = vlist.scrollTop
                                    /\ vlist'.visibleRange = vlist.visibleRange
     /\ (lastOp'.op = "frame" /\ host'.rafQueue # host.rafQueue) =>
          /\ lastOp'.stat.writes = 1
          /\ vlist'.scrollTop = host.scrollTop]_vars

\* C25 witness: a scroll event was dispatched while a frame callback was
\* requested and not yet run; it requested no second one.
ScrollThrottledWitness ==
  /\ lastOp.op = "dispatch" /\ lastOp.arg = 1
  /\ Cardinality(host.rafQueue) = 1
  /\ host.scrollTop # vlist.scrollTop

Mirrors(w) ==
  LET r == rangeFor(Len(w.items), w.scrollTop, w.cfg) IN
    /\ w.visibleRange = r
    /\ DOMAIN w.renderedNodes =
         {i \in r.startIndex..(r.endIndex - 1) : itemAt(w.items, i) # Undefined}
    /\ \A i \in DOMAIN w.renderedNodes :
         /\ w.renderedNodes[i].item = itemAt(w.items, i)
         /\ w.renderedNodes[i].node =
              [index |-> i, item |-> itemAt(w.items, i), y |-> i * w.cfg.itemHeight]
         /\ \E j \in 1..Len(w.content) : w.content[j] = w.renderedNodes[i].node
    /\ Len(w.content) = Cardinality(DOMAIN w.renderedNodes)

\* C27: refresh() forces a recompute of the range and of the rendered
\* window also when the offset has not changed: after the array was changed
\* in place, the rendered nodes show it when refresh() returns.
RefreshShowsMutation ==
  [][(lastOp'.op = "refresh" /\ winHist.dirty /\ ValidSizes) =>
       /\ lastOp'.stat.runs >= 1
       /\ Mirrors(vlist')]_vars

\* C28: after destroy() no scroll event writes the scrollTop signal, whether
\* it was dispatched before (its frame callback is cancelled) or is
\* dispatched afterwards (the listener is removed): no frame callback is
\* left or requested, the signal changes by refresh() only, and a second
\* destroy() changes nothing.
DestroyStopsScroll ==
  [][winHist'.destroyed =>
       /\ host'.rafQueue = {} /\ ~host'.listener
       /\ lastOp'.op # "frame"
       /\ (winHist.destroyed /\ vlist'.scrollTop # vlist.scrollTop) =>
            lastOp'.op = "refresh"
       /\ (winHist.destroyed /\ lastOp'.op = "dispatch") =>
            /\ vlist' = vlist
            /\ lastOp'.arg = 0
       /\ (winHist.destroyed /\ lastOp'.op = "destroy") =>
            vlist' = vlist /\ host' = host]_vars

\* C28 witness: destroy() was called while a frame callback was requested,
\* and a scroll event has been dispatched since: the container is
\* somewhere else than the signal says.
DestroyStopsScrollWitness ==
  /\ winHist.destroyed
  /\ vlist.rafId # 0
  /\ lastOp.op = "dispatch"
  /\ host.scrollTop # vlist.scrollTop

\* C29: after destroy() the effects of the virtual list are in no
\* subscriber Set, no node is cached, and a write to the items signal or a
\* refresh() creates, places or removes no node.
DestroyFreesWindow ==
  [][winHist'.destroyed =>
       /\ vlist'.subs["items"] = <<>>
       /\ DOMAIN vlist'.renderedNodes = {}
       /\ (winHist.destroyed /\ lastOp'.op \in {"setItems", "refresh"}) =>
            /\ lastOp'.stat.runs = 0
            /\ lastOp'.stat.renders = 0
            /\ lastOp'.stat.removes = 0
            /\ lastOp'.stat.touched = 0
            /\ vlist'.content = vlist.content]_vars

\* C30: the rendered window mirrors (items, offset).  When a write to the
\* scrollTop signal or to the items signal has returned (sizes positive, the
\* array changed through the signal only), the indices rendered are those
\* of the range whose item is defined, the node of index i was made from
\* items[i] and is at i * itemHeight, and the spacer is count * itemHeight
\* high.
WindowMirrorsSource ==
  [][(/\ lastOp'.op \in {"setItems", "frame", "refresh"}
      /\ ValidSizes
      /\ ~winHist'.dirty) =>
       /\ Mirrors(vlist')
       /\ vlist'.spacerHeight = Len(vlist'.items) * vlist'.cfg.itemHeight]_vars

\* ------------------------------------------------------------ useAsync claims
\* the promise of call r settles in this step
Settles(r) == requests[r].state = "pending" /\ requests'[r].state = "settled"

\* C31: abort() cancels only the request that is current when it is called.
\* When the promise of a request that a refetch() started after the abort(),
\* and that was not aborted itself, resolves, data holds its value and
\* loading is false.
AbortCancelsOnlyCurrent ==
  [][\A r \in Requests :
       (/\ Settles(r)
        /\ isCancelled
        /\ ~requests[r].aborted
        /\ lastSettle'.outcome.kind = "value") =>
         /\ data' = lastSettle'.outcome.val
         /\ loading' = FALSE]_vars

\* C39: latest request wins.  The promise of a request that a later
\* refetch() superseded changes none of data, error and loading when it
\* settles, in whatever order the promises settle; when the promise of the
\* latest request settles, data (or error) holds its outcome and loading is
\* false.
LatestRequestWins ==
  [][\A r \in Requests :
       Settles(r) =>
         IF r # abortController
           THEN UNCHANGED <<data, error, loading>>
           ELSE ~requests[r].aborted =>
                  /\ loading' = FALSE
                  /\ lastSettle'.outcome.kind = "value" => data' = lastSettle'.outcome.val
                  /\ lastSettle'.outcome.kind = "error" => error' = lastSettle'.outcome.val]_vars

\* ------------------------------------------------- reactive core, continued
\* C32: subscription bookkeeping is consistent in both directions.  In every
\* state, handle h is in the subscriber set of cell c exactly if that set is
\* in the dependency record of h.
SubscriptionsBidirectional ==
  \A h \in Handles, c \in AllCells :
    h \in Range(subscribers[c]) <=> c \in dependencies[h]

\* C32 witness: a handle is being re-run: cleanup has emptied its record, it
\* has read one cell again and not yet another it read before, while another
\* handle was disposed and is in no subscriber set.
SubscriptionsBidirectionalWitness ==
  /\ InBody
  /\ LET h == Top(frames).h IN
       /\ ~Top(frames).create
       /\ dependencies[h] # {}
       /\ everRead[h] \ dependencies[h] # {}
       /\ \E g \in Handles \ {h} : disposed[g] /\ dependencies[g] = {}

ReadsOf(h) ==
  {body[h][i].c : i \in {j \in 1..Len(body[h]) : body[h][j].op \in {"read", "add"}}}

\* B and C are computed from one root signal and D from B and C
IsDiamond(hb, hc, hd) ==
  /\ hb # hc
  /\ \A h \in {hb, hc, hd} : status[h] # "none" /\ IsComputed(h)
  /\ \E root \in Cells : ReadsOf(hb) = {root} /\ ReadsOf(hc) = {root}
  /\ ReadsOf(hd) = {Own(hb), Own(hc)}

\* fn of h is the call in progress
Evaluating(h) == InBody /\ Top(frames).h = h

\* h is still to be invoked by a forEach in progress
Pending(h) ==
  \E j \in 1..Len(frames) :
    /\ frames[j].kind = "notify"
    /\ \E k \in frames[j].i..Len(frames[j].subs) : frames[j].subs[k] = h

\* fn of D is executed during a write to the root while B holds what the new
\* root value yields and C what the old one did
Glitch(hb, hc, hd) ==
  /\ IsDiamond(hb, hc, hd)
  /\ Evaluating(hd)
  /\ runs[hb] >= 1
  /\ Current(hb)
  /\ ~Current(hc)

\* C34 as stated: diamond consistency.  A single write to the root never
\* executes D while B already reflects the new root value and C still holds
\* the value derived from the old one.
DiamondConsistent ==
  \A hb, hc, hd \in Handles : ~Glitch(hb, hc, hd)

\* C34 amended: there is no batching, so a write to the root does execute D
\* between the recomputations of B and C.  Whenever a body is about to read a
\* computed cell that is not current, the handle of that cell is still to be
\* invoked by a notification pass in progress; in a diamond whose D adds B
\* and C, D has run twice by the time a write that changed both returns; and
\* when a top-level write returns every computed cell is current.
DiamondGlitchTransient ==
  /\ (/\ AtStmt("read") \/ AtStmt("add")
      /\ CurStmt.c \notin Cells
      /\ ~Current(Owner(CurStmt.c))) => Pending(Owner(CurStmt.c))
  /\ \A c \in Cells :
       WriteReturning(c) =>
         /\ \A h \in Handles : (IsComputed(h) /\ status[h] = "live") => Current(h)
         /\ \A hb, hc, hd \in Handles :
              (/\ IsDiamond(hb, hc, hd)
               /\ Len(body[hd]) = 3
               /\ {Own(hb), Own(hc)} \subseteq changedCells) => runs[hd] = 2

\* C34 witness: in a diamond, fn of D is about to read C, which still holds
\* what the old root value yielded, after B has taken the new one; the
\* handle of C is still to be invoked by the write to the root.
DiamondGlitchTransientWitness ==
  \E hb, hc, hd \in Handles :
    /\ Glitch(hb, hc, hd)
    /\ AtStmt("read") \/ AtStmt("add")
    /\ CurStmt.c = Own(hc)
    /\ Pending(hc)
    /\ frames[1].kind = "notify"
    /\ frames[1].cell \in ReadsOf(hc)

\* the handles the forEach f has not reached
Unreached(f) == {f.subs[k] : k \in f.i..Len(f.subs)}

\* C35: a subscriber throws during the notification pass of a write.  The
\* error leaves the forEach: the pass is abandoned where it stands, so the
\* subscribers after the throwing one are not executed for that change; no
\* value is restored, the cell keeps what the write stored; and no subscriber
\* set changes, so the handles passed over, that were due and whose latest
\* run read the cell, are still subscribed for the next value-changing write.
ThrowAbandonsPass ==
  [][(thrown # 0 /\ frames # <<>> /\ Top(frames).kind = "notify") =>
       LET f == Top(frames) IN
         /\ f.cell \in changedCells
         /\ value' = value
         /\ frames' = Pop(frames)
         /\ \A h \in Handles : runs'[h] = runs[h] \/ frames' = <<>>
         /\ subscribers' = subscribers
         /\ \A g \in (Unreached(f) \cap f.due) \ Range(f.ran) :
              (~disposed[g] /\ f.cell \in lastReads[g]) =>
                g \in Range(subscribers'[f.cell])]_vars

\* C35 witness: the error of a subscriber is leaving the forEach of a
\* top-level write that changed the cell, and a live handle after the
\* throwing one in the copied array has not run and is subscribed.
ThrowAbandonsPassWitness ==
  /\ thrown # 0
  /\ Len(frames) = 1
  /\ frames[1].kind = "notify"
  /\ frames[1].cell \in changedCells
  /\ frames[1].subs[frames[1].i - 1] = thrown
  /\ \E g \in Unreached(frames[1]) \cap frames[1].due :
       /\ g \notin Range(frames[1].ran)
       /\ status[g] = "live" /\ ~disposed[g]
       /\ runs[g] = 0
       /\ g \in Range(subscribers[frames[1].cell])

\* fn of the computed handle h has returned what its cell already holds and
\* the wrapper is about to call setValue with it
RecomputesSame(h) ==
  /\ AtStmt("write")
  /\ Top(frames).h = h
  /\ IsComputed(h)
  /\ CurStmt.c = Own(h)
  /\ nextValue(CurStmt.k, CurStmt.v, value[Own(h)], Top(frames).x) = value[Own(h)]

\* C36: computed change cut-off.  When a computed cell recomputes to the
\* value it already holds, its setValue notifies nobody: no handle
\* subscribed to the cell is executed and nothing else changes.  A handle is
\* only ever notified by a forEach over a cell whose value the write changed,
\* so a reader of a computed cell runs only when the computed value changes.
ComputedCutOff ==
  [][/\ \A h \in Handles :
          RecomputesSame(h) =>
            /\ frames' = Advance(1)
            /\ UNCHANGED <<value, subscribers, dependencies, running, effectStack>>
            /\ \A g \in Handles : runs'[g] = runs[g]
     /\ (Len(frames') > Len(frames) /\ Top(frames').kind = "notify") =>
          value'[Top(frames').cell] # value[Top(frames').cell]
     /\ (/\ Len(frames') > Len(frames)
         /\ Top(frames').kind = "body"
         /\ ~Top(frames').create) =>
          /\ InNotify
          /\ Top(frames).cell \in changedCells]_vars

\* C36 witness: a computed cell that another computed cell reads has just
\* been recomputed, during a write that changed its source, to the value it
\* held: its reader is subscribed and was not run.
ComputedCutOffWitness ==
  /\ InBody
  /\ Top(frames).pc > Len(body[Top(frames).h])
  /\ ~Top(frames).create
  /\ LET h == Top(frames).h IN
       /\ IsComputed(h)
       /\ Own(h) \notin changedCells
       /\ changedCells \cap ReadsOf(h) # {}
       /\ \E g \in Handles \ {h} :
            /\ g \in Range(subscribers[Own(h)])
            /\ status[g] = "live"
            /\ runs[g] = 0

\* ---------------------------------------------------- keyed list, continued
\* the mapping entries whose node is n
EntriesOf(map, n) == {k \in MappedKeys(map) : map[k].node = n}

\* C37: no untracked node in the managed region.  After list() and after
\* every pass that renderFn did not make throw, duplicate keys or not, every
\* node between the markers is the node of exactly one mapping entry; and
\* after a pass over the empty array the region is empty.
NoUntrackedNode ==
  [][((IsList \/ (IsPass /\ ~raised')) /\ where' = "mounted") =>
       /\ \A n \in Range(Region(children')) :
            Cardinality(EntriesOf(keyToNode', n)) = 1
       /\ items' = <<>> => Region(children') = <<>>]_vars

\* -------------------------------------------------- virtual list, continued
\* no scroll event is waiting to be dispatched and no callback is pending
ScrollQuiet == ~host.scrollEvent /\ host.rafQueue = {}

\* C38: throttling loses no scroll position.  A scroll event dispatched
\* while a callback is pending requests nothing; the callback, when it runs
\* (destroy() not having been called), stores the position the container has
\* at that time; and so, once no scroll event is outstanding and no callback
\* pending, the scrollTop signal is the position of the container.
ScrollNotLost ==
  [][/\ (lastOp'.op = "dispatch" /\ lastOp'.arg = 1) =>
          host'.rafQueue = host.rafQueue /\ host'.nextRaf = host.nextRaf
     /\ (lastOp'.op = "frame" /\ host'.rafQueue # host.rafQueue) =>
          vlist'.scrollTop = host.scrollTop
     /\ (vlist'.created /\ ~winHist'.destroyed /\ ScrollQuiet') =>
          vlist'.scrollTop = host'.scrollTop]_vars

\* C38 witness: a scroll event was dropped while the callback was pending;
\* the callback has run and changed the scrollTop signal to the position of
\* the container, and nothing is outstanding.
ScrollNotLostWitness ==
  /\ lastOp.op = "frame" /\ lastOp.arg = 1
  /\ ~winHist.destroyed
  /\ ScrollQuiet
  /\ lastOp.stat.runs >= 1
  /\ vlist.scrollTop # 0
  /\ vlist.scrollTop = host.scrollTop

\* --------------------------------------------------- nested effects, claims
\* the handles made by effect() calls in the body of h
Inner(h) == {g \in Handles : createdBy[g] = h}

\* C40: effects created inside the body of an outer effect are not owned by
\* it.  Each run of the outer body that calls effect() adds one inner handle
\* and leaves those of its earlier runs subscribed; and whatever happens to
\* the outer handle, re-run or disposed, an inner handle that is live, was
\* not itself disposed and is not executing is subscribed to the cell it
\* reads.  So after n re-runs of the outer effect n + 1 inner handles are
\* subscribed.
NestedNotOwned ==
  [][/\ \A h \in Handles :
          (AtStmt("effect") /\ Top(frames).h = h /\ status' # status) =>
            /\ NewHandle \notin Inner(h)
            /\ Inner(h)' = Inner(h) \cup {NewHandle}
            /\ \A g \in Inner(h) :
                 g \in Range(subscribers[body[g][1].c]) =>
                   g \in Range(subscribers'[body[g][1].c])
     /\ \A g \in Handles :
          (/\ createdBy'[g] # 0
           /\ status'[g] = "live"
           /\ ~disposed'[g]
           /\ ~Executing(g)') => SubscribedTo(g)' = {body'[g][1].c}]_vars

\* C40 witness: the outer effect has run twice and was then disposed; the
\* two inner handles its runs made are live and a write to the cell they
\* read has run both.
NestedNotOwnedWitness ==
  /\ InNotify
  /\ \E h \in Handles :
       /\ disposed[h]
       /\ Cardinality(Inner(h)) = 2
       /\ \A g \in Inner(h) : status[g] = "live" /\ ~disposed[g]
       /\ Inner(h) \subseteq Range(Top(frames).ran)
       /\ \A g \in Inner(h) : g \in Range(subscribers[Top(frames).cell])

====
